---- MODULE Spec2Model ----
(***************************************************************************)
(* Legal tabular review backend: the extraction engine (chunker, response   *)
(* parser, chunk merge), the parse / extract background jobs with their     *)
(* retry policy, and the review upsert endpoints.                           *)
(*                                                                          *)
(* The module holds several specifications over one set of variables:       *)
(*   SpecChunk   GeminiExtractor._create_chunks, run statement by statement *)
(*   SpecEngine  GeminiExtractor.extract, one LLM call per step             *)
(*   Spec        documents, extracted records and the Celery jobs           *)
(*   SpecReview  create_review_record / bulk_create_reviews                 *)
(*   SpecNormalize  GeminiExtractor._normalize_value on its own             *)
(*   SpecTable   get_project_review_table over stored records and reviews   *)
(*   SpecTemplate  update_field_template, delete_field_template and the     *)
(*               re-extract job                                             *)
(*   SpecLive    the Celery jobs with the worker's time limit, under        *)
(*               fairness of the job steps                                  *)
(*   SpecCatalog  create_field_template and update_field_template while an  *)
(*               extraction job runs                                        *)
(*   SpecRerun   an extraction job run again for a reviewed record, with    *)
(*               the review table                                           *)
(* A specification leaves the variables of the others at their idle values. *)
(***************************************************************************)
EXTENDS Integers, Sequences, FiniteSets, TLC

VARIABLES
    cText, cSize, cOverlap, cStart, cChunks, cPc,
    eText, eDefs, eChunks, ePrompts, eCalls, eCur, eUsed, eResult, ePc,
    documents, projects, templates, records, jobs,
    reviews, submitted,
    nRaw, nType, nOut, nPc,
    table,
    tReply

chunkVars == <<cText, cSize, cOverlap, cStart, cChunks, cPc>>
engineVars == <<eText, eDefs, eChunks, ePrompts, eCalls, eCur, eUsed, eResult, ePc>>
pipeVars == <<documents, projects, templates, records, jobs>>
reviewVars == <<reviews, submitted>>
normVars == <<nRaw, nType, nOut, nPc>>
tableVars == <<table>>
replyVars == <<tReply>>
vars == <<chunkVars, engineVars, pipeVars, reviewVars, normVars, tableVars, replyVars>>

Min(a, b) == IF a < b THEN a ELSE b
Max(a, b) == IF a > b THEN a ELSE b

(***************************************************************************)
(* Chunker: GeminiExtractor._create_chunks                                  *)
(***************************************************************************)

\* Bounds of the chunker's inputs.
MaxTextLen == 6
MaxChunkSize == 4
MaxOverlap == 3

Chars == {"a", "b"}

Texts == UNION {[1..n -> Chars] : n \in 0..MaxTextLen}

\* Python slice s[a:b] of a sequence, negative indices counted from the end.
PyIndex(i, n) == IF i < 0 THEN Max(i + n, 0) ELSE Min(i, n)

PySlice(s, a, b) ==
    LET lo == PyIndex(a, Len(s))
        hi == PyIndex(b, Len(s))
    IN IF lo < hi THEN SubSeq(s, lo + 1, hi) ELSE <<>>

\* end = start + chunk_size
ChunkEnd(start, size) == start + size

\* A chunker that restarts at the end of the previous chunk, overlap dropped.
ChunkNextStartNoOverlap(end, overlap) == end

\* start = end - overlap
ChunkNextStart(end, overlap) == end - overlap

\* The chunker stopped for lack of room in the model, the loop still running.
ChunkCap == Len(cText) + 1

InitChunk ==
    /\ cText \in Texts
    /\ cSize \in 1..MaxChunkSize
    /\ cOverlap \in 0..MaxOverlap
    /\ cStart = 0
    /\ cChunks = <<>>
    /\ cPc = "loop"
    \* The engine, the store and the queue take no part.
    /\ eText = <<>> /\ eDefs = <<>> /\ eChunks = <<>> /\ ePrompts = <<>> /\ eCalls = <<>>
    /\ eCur = <<>> /\ eUsed = 0 /\ eResult = <<>> /\ ePc = "idle"
    /\ documents = [d \in {"d1"} |-> [upload_status |-> "ABSENT", parsed_text |-> <<"<None>">>,
                                       error_message |-> <<"<None>">>]]
    /\ projects = [p \in {"p1"} |-> [field_template_id |-> "none", status |-> "ACTIVE"]]
    /\ templates = [t \in {"t1"} |-> [fields |-> <<>>, version |-> 1]]
    /\ records = <<>> /\ jobs = <<>>
    /\ reviews = <<>> /\ submitted = <<>>
    /\ nRaw = <<>> /\ nType = "TEXT" /\ nOut = <<>> /\ nPc = "idle"
    /\ table = [code |-> 0, columns |-> <<>>, rows |-> <<>>]
    /\ tReply = [op |-> "none", code |-> 0, fields |-> <<>>, trigger |-> FALSE, failed |-> {}]

\* One evaluation of the while condition and, when it holds, one loop body.
ChunkStep ==
    /\ cPc = "loop"
    /\ Len(cChunks) < ChunkCap
    /\ IF cStart < Len(cText)
       THEN LET end == ChunkEnd(cStart, cSize)
            IN /\ cChunks' = Append(cChunks, PySlice(cText, cStart, end))
               /\ IF end >= Len(cText)
                  THEN cPc' = "done" /\ cStart' = cStart
                  ELSE cPc' = "loop" /\ cStart' = ChunkNextStart(end, cOverlap)
       ELSE cPc' = "done" /\ UNCHANGED <<cStart, cChunks>>
    /\ UNCHANGED <<cText, cSize, cOverlap>>

\* _create_chunks as a function, for callers that pass overlap < chunk_size.
RECURSIVE CreateChunksFrom(_, _, _, _)
CreateChunksFrom(text, size, overlap, start) ==
    IF start < Len(text)
    THEN LET end == ChunkEnd(start, size)
             chunk == PySlice(text, start, end)
         IN IF end >= Len(text)
            THEN <<chunk>>
            ELSE <<chunk>> \o CreateChunksFrom(text, size, overlap, ChunkNextStart(end, overlap))
    ELSE <<>>

CreateChunks(text, size, overlap) == CreateChunksFrom(text, size, overlap, 0)

(***************************************************************************)
(* Field normaliser: GeminiExtractor._normalize_value                       *)
(* A Python str is a tuple of one-character strings; None is NoneVal.       *)
(***************************************************************************)

NoneVal == <<"<None>">>

Digits == {"0", "1", "2", "3", "4", "5", "6", "7", "8", "9"}
Whitespace == {" "}
LowerLetters == {"a", "b", "c", "d", "e", "f", "g", "h", "i", "j", "k", "l", "m",
                 "n", "o", "p", "q", "r", "s", "t", "u", "v", "w", "x", "y", "z"}
UpperLetters == {"A", "B", "C", "D", "E", "F", "G", "H", "I", "J", "K", "L", "M",
                 "N", "O", "P", "Q", "R", "S", "T", "U", "V", "W", "X", "Y", "Z"}

UpperToLower ==
    [c \in UpperLetters |->
        CASE c = "A" -> "a" [] c = "B" -> "b" [] c = "C" -> "c" [] c = "D" -> "d"
          [] c = "E" -> "e" [] c = "F" -> "f" [] c = "G" -> "g" [] c = "H" -> "h"
          [] c = "I" -> "i" [] c = "J" -> "j" [] c = "K" -> "k" [] c = "L" -> "l"
          [] c = "M" -> "m" [] c = "N" -> "n" [] c = "O" -> "o" [] c = "P" -> "p"
          [] c = "Q" -> "q" [] c = "R" -> "r" [] c = "S" -> "s" [] c = "T" -> "t"
          [] c = "U" -> "u" [] c = "V" -> "v" [] c = "W" -> "w" [] c = "X" -> "x"
          [] c = "Y" -> "y" [] c = "Z" -> "z"]

LowerChar(c) == IF c \in UpperLetters THEN UpperToLower[c] ELSE c

\* str.lower()
StrLower(s) == [i \in 1..Len(s) |-> LowerChar(s[i])]

\* str.strip()
RECURSIVE LStrip(_)
LStrip(s) == IF s # <<>> /\ Head(s) \in Whitespace THEN LStrip(Tail(s)) ELSE s

RECURSIVE RStrip(_)
RStrip(s) ==
    IF s # <<>> /\ s[Len(s)] \in Whitespace THEN RStrip(SubSeq(s, 1, Len(s) - 1)) ELSE s

StrStrip(s) == RStrip(LStrip(s))

\* Length of the longest run of characters of class cls that starts at index i.
RECURSIVE RunLen(_, _, _)
RunLen(s, i, cls) ==
    IF i <= Len(s) /\ s[i] \in cls THEN 1 + RunLen(s, i + 1, cls) ELSE 0

\* s[i..] starts with one character of each class of the sequence shape.
MatchShape(s, i, shape) ==
    /\ i + Len(shape) - 1 <= Len(s)
    /\ \A k \in 1..Len(shape) : s[i + k - 1] \in shape[k]

\* r'(\d{4})-(\d{2})-(\d{2})'
IsoDateShape == <<Digits, Digits, Digits, Digits, {"-"}, Digits, Digits, {"-"}, Digits, Digits>>

\* r'(\d{2})/(\d{2})/(\d{4})'
SlashDateShape == <<Digits, Digits, {"/"}, Digits, Digits, {"/"}, Digits, Digits, Digits, Digits>>

MonthPrefixes ==
    {<<"j", "a", "n">>, <<"f", "e", "b">>, <<"m", "a", "r">>, <<"a", "p", "r">>,
     <<"m", "a", "y">>, <<"j", "u", "n">>, <<"j", "u", "l">>, <<"a", "u", "g">>,
     <<"s", "e", "p">>, <<"o", "c", "t">>, <<"n", "o", "v">>, <<"d", "e", "c">>}

\* Length of the match of
\* r'(\d{1,2})\s+(Jan|...|Dec)[a-z]*\s+(\d{4})' (re.IGNORECASE) at index i, 0 if none.
SpelledDateLen(s, i) ==
    LET d == RunLen(s, i, Digits)
        w1 == RunLen(s, i + d, Whitespace)
        m == i + d + w1
        l == RunLen(s, m + 3, LowerLetters \cup UpperLetters)
        w2 == RunLen(s, m + 3 + l, Whitespace)
        y == m + 3 + l + w2
    IN IF /\ d \in 1..2
          /\ w1 >= 1
          /\ m + 2 <= Len(s)
          /\ StrLower(SubSeq(s, m, m + 2)) \in MonthPrefixes
          /\ w2 >= 1
          /\ RunLen(s, y, Digits) >= 4
       THEN d + w1 + 3 + l + w2 + 4
       ELSE 0

\* re.search of a fixed-shape pattern: the leftmost match, NoneVal if none.
SearchShape(s, shape) ==
    LET hits == {i \in 1..Len(s) : MatchShape(s, i, shape)}
    IN IF hits = {} THEN NoneVal
       ELSE LET i == CHOOSE h \in hits : \A g \in hits : h <= g
            IN SubSeq(s, i, i + Len(shape) - 1)

SearchSpelledDate(s) ==
    LET hits == {i \in 1..Len(s) : SpelledDateLen(s, i) > 0}
    IN IF hits = {} THEN NoneVal
       ELSE LET i == CHOOSE h \in hits : \A g \in hits : h <= g
            IN SubSeq(s, i, i + SpelledDateLen(s, i) - 1)

\* The DATE branch: the first pattern, in list order, that matches anywhere.
NormalizeDate(s) ==
    IF SearchShape(s, IsoDateShape) # NoneVal THEN SearchShape(s, IsoDateShape)
    ELSE IF SearchShape(s, SlashDateShape) # NoneVal THEN SearchShape(s, SlashDateShape)
    ELSE IF SearchSpelledDate(s) # NoneVal THEN SearchSpelledDate(s)
    ELSE s

RemoveChar(s, c) == SelectSeq(s, LAMBDA x : x # c)

\* Length of the match of r'-?[\d,]+\.?\d*' at index i, 0 if none.
NumberLen(s, i) ==
    LET sign == IF i <= Len(s) /\ s[i] = "-" THEN 1 ELSE 0
        body == RunLen(s, i + sign, Digits \cup {","})
        dot == IF i + sign + body <= Len(s) /\ s[i + sign + body] = "." THEN 1 ELSE 0
        frac == RunLen(s, i + sign + body + dot, Digits)
    IN IF body >= 1 THEN sign + body + dot + frac ELSE 0

\* The NUMBER branch.
NormalizeNumber(s) ==
    LET hits == {i \in 1..Len(s) : NumberLen(s, i) > 0}
    IN IF hits = {} THEN s
       ELSE LET i == CHOOSE h \in hits : \A g \in hits : h <= g
            IN RemoveChar(SubSeq(s, i, i + NumberLen(s, i) - 1), ",")

BooleanTrue == {<<"y", "e", "s">>, <<"t", "r", "u", "e">>, <<"1">>, <<"y">>}
BooleanFalse == {<<"n", "o">>, <<"f", "a", "l", "s", "e">>, <<"0">>, <<"n">>}

\* A BOOLEAN branch that compares without lower-casing.
NormalizeBooleanCaseSensitive(s) ==
    IF s \in BooleanTrue THEN <<"t", "r", "u", "e">>
    ELSE IF s \in BooleanFalse THEN <<"f", "a", "l", "s", "e">>
    ELSE s

\* The BOOLEAN branch.
NormalizeBoolean(s) ==
    IF StrLower(s) \in BooleanTrue THEN <<"t", "r", "u", "e">>
    ELSE IF StrLower(s) \in BooleanFalse THEN <<"f", "a", "l", "s", "e">>
    ELSE s

\* re.split(r'[,;]', s): the pieces between separators, empty pieces included.
RECURSIVE SplitList(_, _)
SplitList(s, piece) ==
    IF s = <<>> THEN <<piece>>
    ELSE IF Head(s) \in {",", ";"} THEN <<piece>> \o SplitList(Tail(s), <<>>)
    ELSE SplitList(Tail(s), Append(piece, Head(s)))

\* ', '.join(items)
RECURSIVE JoinList(_)
JoinList(items) ==
    IF items = <<>> THEN <<>>
    ELSE IF Len(items) = 1 THEN items[1]
    ELSE items[1] \o <<",", " ">> \o JoinList(Tail(items))

\* The LIST branch.
NormalizeList(s) ==
    IF \E i \in 1..Len(s) : s[i] \in {",", ";"}
    THEN LET items == [i \in 1..Len(SplitList(s, <<>>)) |-> StrStrip(SplitList(s, <<>>)[i])]
         IN JoinList(SelectSeq(items, LAMBDA x : x # <<>>))
    ELSE s

FieldTypes == {"TEXT", "DATE", "NUMBER", "BOOLEAN", "LIST"}

\* _normalize_value; the normalization_strategy argument is never read.
NormalizeValue(raw_value, field_type, normalization_strategy) ==
    IF raw_value = NoneVal \/ raw_value = <<"n", "u", "l", "l">> THEN NoneVal
    ELSE LET s == StrStrip(raw_value)
         IN IF s = <<>> THEN NoneVal
            ELSE CASE field_type = "DATE" -> NormalizeDate(s)
                   [] field_type = "NUMBER" -> NormalizeNumber(s)
                   [] field_type = "BOOLEAN" -> NormalizeBoolean(s)
                   [] field_type = "LIST" -> NormalizeList(s)
                   [] OTHER -> s

\* Raw values handed to _normalize_value on its own: None, every string of at
\* most MaxRawLen of these characters, and the longer words the branches name.
MaxRawLen == 3
RawChars == {" ", "y", "Y", "n", "N", "0", "1", ",", "x"}
RawWords ==
    {<<"y", "e", "s">>, <<" ", "Y", "e", "S", " ">>, <<"t", "r", "u", "e">>,
     <<"T", "R", "U", "E">>, <<"f", "a", "l", "s", "e">>, <<"F", "a", "l", "s", "e", " ">>,
     <<"n", "u", "l", "l">>, <<"N", "U", "L", "L">>, <<" ", "n", "u", "l", "l">>,
     <<"m", "a", "y", "b", "e">>, <<" ", "m", "a", "y", "b", "e", " ">>}
RawValues ==
    {NoneVal} \cup RawWords \cup UNION {[1..k -> RawChars] : k \in 0..MaxRawLen}

\* The field_type tags a definition may carry; "CURRENCY" is not a FieldType.
TypeTags == FieldTypes \cup {"CURRENCY"}

InitNormalize ==
    /\ nRaw \in RawValues
    /\ nType \in TypeTags
    /\ nOut = NoneVal
    /\ nPc = "call"
    \* The chunker, the engine, the store and the queue take no part.
    /\ cText = <<>> /\ cSize = 1 /\ cOverlap = 0 /\ cStart = 0 /\ cChunks = <<>>
    /\ cPc = "idle"
    /\ eText = <<>> /\ eDefs = <<>> /\ eChunks = <<>> /\ ePrompts = <<>> /\ eCalls = <<>>
    /\ eCur = <<>> /\ eUsed = 0 /\ eResult = <<>> /\ ePc = "idle"
    /\ documents = [d \in {"d1"} |-> [upload_status |-> "ABSENT", parsed_text |-> <<"<None>">>,
                                       error_message |-> <<"<None>">>]]
    /\ projects = [p \in {"p1"} |-> [field_template_id |-> "none", status |-> "ACTIVE"]]
    /\ templates = [t \in {"t1"} |-> [fields |-> <<>>, version |-> 1]]
    /\ records = <<>> /\ jobs = <<>>
    /\ reviews = <<>> /\ submitted = <<>>
    /\ table = [code |-> 0, columns |-> <<>>, rows |-> <<>>]
    /\ tReply = [op |-> "none", code |-> 0, fields |-> <<>>, trigger |-> FALSE, failed |-> {}]

\* One call of _normalize_value: no statement before the try block can raise on
\* a string or None, and the handler of the try block returns too.
NormalizeCall ==
    /\ nPc = "call"
    /\ nOut' = NormalizeValue(nRaw, nType, NoneVal)
    /\ nPc' = "returned"
    /\ UNCHANGED <<nRaw, nType>>

(***************************************************************************)
(* Extraction engine: GeminiExtractor.extract and what it calls             *)
(* Lengths are scaled (1 : 10000 for chunk_size and the prompt cut, the     *)
(* overlap kept below both); confidence scores are in tenths, 1.0 = 10.     *)
(***************************************************************************)

\* chunk_size: int = 50000
DefaultChunkSize == 5
\* overlap=500 in _extract_chunked
ChunkOverlap == 1
\* document_text[:30000] in _build_extraction_prompt
PromptLimit == 3

\* Longest document text, and the most array items the model returns during one extract().
MaxDocLen == 10
MaxItems == 3

ItemKeys == {"field_id", "raw_value", "confidence_score", "citations"}

F1 == [field_id |-> "f1", field_name |-> "Signed", field_type |-> "BOOLEAN"]
F2 == [field_id |-> "f2", field_name |-> "Party", field_type |-> "TEXT"]

\* Field definition lists of a template: field_ids are distinct.
EngineDefs == {<<>>, <<F1>>, <<F1, F2>>}

Item(keys, id, raw, conf, isnum, cites) ==
    [keys |-> keys, field_id |-> id, raw_value |-> raw, confidence_score |-> conf,
     confidence_is_number |-> isnum, citations |-> cites]

\* The array items a model response is made of.
LLMItems ==
    UNION {{Item(ItemKeys, id, NoneVal, 9, TRUE, <<>>),
            Item(ItemKeys, id, <<>>, 15, TRUE, <<"p1">>),
            Item(ItemKeys, id, <<"y", "e", "s">>, 7, TRUE, <<"p1">>),
            Item(ItemKeys, id, <<"n", "o">>, 7, TRUE, <<"p2">>),
            Item({"field_id", "raw_value"}, id, <<"y">>, 0, TRUE, <<>>),
            Item(ItemKeys, id, <<"n">>, -5, TRUE, <<"p2">>)} : id \in {"f1", "f2", "zz"}}
    \cup {Item(ItemKeys \ {"field_id"}, "", <<"y", "e", "s">>, 7, TRUE, <<"p1">>),
          Item(ItemKeys, "f1", <<"y", "e", "s">>, 0, FALSE, <<"p1">>)}

FieldResult(id, raw, norm, conf, cites) ==
    [field_id |-> id, raw_value |-> raw, normalized_value |-> norm,
     confidence_score |-> conf, citations |-> cites]

\* The result synthesised for a field without a value.
Placeholder(id) == FieldResult(id, NoneVal, NoneVal, 0, <<>>)

\* dict.get(key, default)
ItemGet(item, key, default) ==
    IF key \in item.keys THEN item[key] ELSE default

\* next((f for f in seq if f['field_id'] == id), None) as an index, 0 for None.
FirstWithId(seq, id) ==
    IF \E i \in 1..Len(seq) : seq[i].field_id = id
    THEN CHOOSE i \in 1..Len(seq) :
            /\ seq[i].field_id = id
            /\ \A j \in 1..(i - 1) : seq[j].field_id # id
    ELSE 0

\* A clamp that bounds the confidence from below only.
ClampConfidenceNoUpper(c) == Max(0, c)

\* min(1.0, max(0.0, float(c)))
ClampConfidence(c) == Min(10, Max(0, c))

\* What the loop body of _parse_response appends for one array item of a known field.
ValidatedField(item, field_def) ==
    FieldResult(item.field_id,
                ItemGet(item, "raw_value", NoneVal),
                NormalizeValue(ItemGet(item, "raw_value", NoneVal), field_def.field_type, NoneVal),
                ClampConfidence(ItemGet(item, "confidence_score", 5)),
                ItemGet(item, "citations", <<>>))

\* A response parser that keeps one result per field_id, the first.
ParseItemKeepFirst(validated, item, defs) ==
    IF "field_id" \notin item.keys \/ FirstWithId(defs, item.field_id) = 0
       \/ FirstWithId(validated, item.field_id) # 0
    THEN validated
    ELSE Append(validated, ValidatedField(item, defs[FirstWithId(defs, item.field_id)]))

\* One iteration of "for item in extracted_data" for an item it does not raise on.
ParseItemStep(validated, item, defs) ==
    IF "field_id" \notin item.keys \/ FirstWithId(defs, item.field_id) = 0
    THEN validated
    ELSE Append(validated, ValidatedField(item, defs[FirstWithId(defs, item.field_id)]))

\* float(item.get('confidence_score', 0.5)) raises for this item.
ItemRaises(item, defs) ==
    /\ "field_id" \in item.keys
    /\ FirstWithId(defs, item.field_id) # 0
    /\ "confidence_score" \in item.keys
    /\ ~item.confidence_is_number

\* A parser without the "Ensure all fields are present" step.
FillMissingNone(validated, defs) == validated

\* "Ensure all fields are present": a placeholder for every definition not yet in the list.
RECURSIVE FillMissing(_, _)
FillMissing(validated, defs) ==
    IF defs = <<>> THEN validated
    ELSE FillMissing(
            IF FirstWithId(validated, Head(defs).field_id) = 0
            THEN Append(validated, Placeholder(Head(defs).field_id))
            ELSE validated,
            Tail(defs))

\* field_data and field_data.get('raw_value'): None and '' are both falsy.
Truthy(raw) == raw # NoneVal /\ raw # <<>>

\* The per-chunk candidates of one field, in chunk order.
RECURSIVE FieldExtractions(_, _)
FieldExtractions(chunk_results, field_id) ==
    IF chunk_results = <<>> THEN <<>>
    ELSE LET cr == Head(chunk_results)
             i == FirstWithId(cr, field_id)
             rest == FieldExtractions(Tail(chunk_results), field_id)
         IN IF i # 0 /\ Truthy(cr[i].raw_value) THEN <<cr[i]>> \o rest ELSE rest

\* max(field_extractions, key=confidence_score): the first of the maximal ones.
BestExtraction(cands) ==
    cands[CHOOSE i \in 1..Len(cands) :
            /\ \A j \in 1..Len(cands) : cands[j].confidence_score <= cands[i].confidence_score
            /\ \A j \in 1..(i - 1) : cands[j].confidence_score < cands[i].confidence_score]

\* _merge_chunk_results
MergeChunkResults(chunk_results, field_definitions) ==
    [k \in 1..Len(field_definitions) |->
        LET cands == FieldExtractions(chunk_results, field_definitions[k].field_id)
        IN IF cands # <<>> THEN BestExtraction(cands)
           ELSE Placeholder(field_definitions[k].field_id)]

\* The document text a prompt embeds: {document_text[:30000]}.
PromptText(document_text) == PySlice(document_text, 0, PromptLimit)

\* An extract() that chunks a text of exactly chunk_size characters too.
NeedsChunkingAtThreshold(document_text, chunk_size) == Len(document_text) >= chunk_size

\* extract(): len(document_text) > chunk_size takes the chunked path.
NeedsChunking(document_text, chunk_size) == Len(document_text) > chunk_size

InitEngine ==
    /\ eText \in {[i \in 1..n |-> i] : n \in 0..MaxDocLen}
    /\ eDefs \in EngineDefs
    /\ eChunks = <<>>
    /\ ePrompts = <<>>
    /\ eCalls = <<>>
    /\ eCur = <<>>
    /\ eUsed = 0
    /\ eResult = <<>>
    /\ ePc = "start"
    \* The stepwise chunker, the store and the queue take no part.
    /\ cText = <<>> /\ cSize = 1 /\ cOverlap = 0 /\ cStart = 0 /\ cChunks = <<>>
    /\ cPc = "idle"
    /\ documents = [d \in {"d1"} |-> [upload_status |-> "ABSENT", parsed_text |-> <<"<None>">>,
                                       error_message |-> <<"<None>">>]]
    /\ projects = [p \in {"p1"} |-> [field_template_id |-> "none", status |-> "ACTIVE"]]
    /\ templates = [t \in {"t1"} |-> [fields |-> <<>>, version |-> 1]]
    /\ records = <<>> /\ jobs = <<>>
    /\ reviews = <<>> /\ submitted = <<>>
    /\ nRaw = <<>> /\ nType = "TEXT" /\ nOut = <<>> /\ nPc = "idle"
    /\ table = [code |-> 0, columns |-> <<>>, rows |-> <<>>]
    /\ tReply = [op |-> "none", code |-> 0, fields |-> <<>>, trigger |-> FALSE, failed |-> {}]

\* extract() up to the first LLM call: the path is chosen, the text chunked.
ExtractStart ==
    /\ ePc = "start"
    /\ eChunks' = IF NeedsChunking(eText, DefaultChunkSize)
                  THEN CreateChunks(eText, DefaultChunkSize, ChunkOverlap)
                  ELSE <<eText>>
    /\ ePc' = "invoke"
    /\ UNCHANGED <<eText, eDefs, ePrompts, eCalls, eCur, eUsed, eResult>>

\* _extract_single: the prompt is built and the model invoked for the next chunk;
\* the reply holds a JSON array, or the call raises or no array is found in it.
InvokeLLM ==
    /\ ePc = "invoke"
    /\ ePrompts' = Append(ePrompts, PromptText(eChunks[Len(eCalls) + 1]))
    /\ \E array \in BOOLEAN :
          ePc' = IF array THEN "parse" ELSE "error"
    /\ eCur' = <<>>
    /\ UNCHANGED <<eText, eDefs, eChunks, eCalls, eUsed, eResult>>

\* _parse_response: one iteration of the loop over the array's items.
ParseItem ==
    /\ ePc = "parse"
    /\ eUsed < MaxItems
    /\ \E item \in LLMItems :
          IF ItemRaises(item, eDefs)
          THEN ePc' = "error" /\ eCur' = eCur
          ELSE ePc' = "parse" /\ eCur' = ParseItemStep(eCur, item, eDefs)
    /\ eUsed' = eUsed + 1
    /\ UNCHANGED <<eText, eDefs, eChunks, ePrompts, eCalls, eResult>>

\* _parse_response after the loop, and the caller's next step: the next chunk,
\* the single call's return, or the merge of the chunks' results.
ParseFinish ==
    /\ ePc = "parse"
    /\ LET done == FillMissing(eCur, eDefs)
           calls == Append(eCalls, done)
       IN /\ eCalls' = calls
          /\ IF Len(calls) < Len(eChunks)
             THEN ePc' = "invoke" /\ eResult' = eResult
             ELSE /\ ePc' = "done"
                  /\ eResult' = IF NeedsChunking(eText, DefaultChunkSize)
                                THEN MergeChunkResults(calls, eDefs)
                                ELSE done
    /\ eCur' = <<>>
    /\ UNCHANGED <<eText, eDefs, eChunks, ePrompts, eUsed>>

(***************************************************************************)
(* Documents, extracted records and the Celery jobs                         *)
(* records is the committed content of the extracted_records table; a job's *)
(* session reads it and writes it at its commits, holding no lock between.  *)
(***************************************************************************)

\* max_retries=3 of parse_document_task and extract_document_task
MaxRetries == 3

\* Jobs ever queued, retries of all jobs together, and job messages the queue
\* delivers a second time.
MaxJobs == 3
MaxRequeues == 3
MaxRedeliver == 1

DocIds == {"d1"}
ProjectOf == [d \in DocIds |-> "p1"]
ProjIds == {"p1"}
\* "tx" is the id of no stored template.
TemplateIds == {"t1", "tx"}
NoTemplate == "none"

\* The text DocumentParser.parse extracts from a document's file.
FileText == [d \in DocIds |-> <<"a", "b">>]

AbsentDoc == [upload_status |-> "ABSENT", parsed_text |-> NoneVal, error_message |-> NoneVal]

\* What extractor.extract returns for the model's replies to one call.
RECURSIVE ParseResponse(_, _, _)
ParseResponse(validated, items, defs) ==
    IF items = <<>> THEN FillMissing(validated, defs)
    ELSE ParseResponse(ParseItemStep(validated, Head(items), defs), Tail(items), defs)

ModelReplies ==
    {<<Item(ItemKeys, "f1", <<"y", "e", "s">>, 7, TRUE, <<"p1">>)>>,
     <<Item(ItemKeys, "f2", <<"n", "o">>, 7, TRUE, <<"p2">>)>>}

NewJob(kind, doc, tpl, origin) ==
    [kind |-> kind, document_id |-> doc, field_template_id |-> tpl, retries |-> 0,
     pc |-> "queued", rec |-> 0, seen |-> "", result |-> "",
     error |-> NoneVal, origin |-> origin]

NewRecord(doc, tpl, status, err) ==
    [document_id |-> doc, field_template_id |-> tpl, extraction_status |-> status,
     extracted_fields |-> NoneVal, error_message |-> err]

\* The records of one (document, template) pair, by id.
RecordsOf(doc, tpl) ==
    {r \in 1..Len(records) :
        records[r].document_id = doc /\ records[r].field_template_id = tpl}

JobIds == 1..Len(jobs)

\* Room in the queue for one more job, the jobs that running parse executions
\* may still queue counted in.
HasRoom ==
    Len(jobs) + Cardinality({k \in JobIds : jobs[k].kind = "parse"
                                             /\ jobs[k].pc \in {"parsing", "trigger"}})
        < MaxJobs

RECURSIVE Requeues(_)
Requeues(k) == IF k = 0 THEN 0 ELSE jobs[k].retries + Requeues(k - 1)

\* An unexpected exception may still be raised in job j.
MayFault(j) == jobs[j].retries < MaxRetries => Requeues(Len(jobs)) < MaxRequeues

InitPipe ==
    /\ documents = [d \in DocIds |-> AbsentDoc]
    /\ projects \in [ProjIds -> [field_template_id : {NoTemplate, "t1"}, status : {"ACTIVE"}]]
    /\ templates = [t \in {"t1"} |-> [fields |-> <<F1, F2>>, version |-> 1]]
    /\ records = <<>>
    /\ jobs = <<>>
    \* The stepwise chunker, the stepwise engine and the reviews take no part.
    /\ cText = <<>> /\ cSize = 1 /\ cOverlap = 0 /\ cStart = 0 /\ cChunks = <<>>
    /\ cPc = "idle"
    /\ eText = <<>> /\ eDefs = <<>> /\ eChunks = <<>> /\ ePrompts = <<>> /\ eCalls = <<>>
    /\ eCur = <<>> /\ eUsed = 0 /\ eResult = <<>> /\ ePc = "idle"
    /\ reviews = <<>> /\ submitted = <<>>
    /\ nRaw = <<>> /\ nType = "TEXT" /\ nOut = <<>> /\ nPc = "idle"
    /\ table = [code |-> 0, columns |-> <<>>, rows |-> <<>>]
    /\ tReply = [op |-> "none", code |-> 0, fields |-> <<>>, trigger |-> FALSE, failed |-> {}]

\* upload_document: the record is created UPLOADED and the parse job queued;
\* a failure to queue is logged and the upload still answers 201.
UploadDocument(d) ==
    /\ documents[d].upload_status = "ABSENT"
    /\ projects[ProjectOf[d]].status = "ACTIVE"
    /\ documents' = [documents EXCEPT ![d].upload_status = "UPLOADED"]
    /\ \E queued \in BOOLEAN :
          jobs' = IF queued THEN Append(jobs, NewJob("parse", d, NoTemplate, <<0, 0>>))
                  ELSE jobs
    /\ UNCHANGED <<projects, templates, records>>

\* update_project: field_template_id is set or cleared.
UpdateProject(p, t) ==
    /\ projects[p].field_template_id # t
    /\ projects' = [projects EXCEPT ![p].field_template_id = t]
    /\ UNCHANGED <<documents, templates, records, jobs>>

\* The status code trigger_extraction answers.
TriggerCode(d, t, force) ==
    IF documents[d].upload_status = "ABSENT" THEN 404
    ELSE IF documents[d].upload_status # "PARSED" THEN 400
    ELSE IF ~force /\ Cardinality(RecordsOf(d, t)) > 1 THEN 500
    ELSE IF ~force /\ RecordsOf(d, t) # {} THEN 409
    ELSE 202

\* trigger_extraction queues a job exactly when it answers 202.
TriggerQueues(code) == code = 202

\* trigger_extraction
\* (extract_document_task.delay raising is answered 500, nothing queued.)
TriggerExtraction(d, t, force) ==
    /\ HasRoom
    /\ IF TriggerQueues(TriggerCode(d, t, force))
       THEN \E queued \in BOOLEAN :
               jobs' = IF queued THEN Append(jobs, NewJob("extract", d, t, <<0, 0>>))
                       ELSE jobs
       ELSE UNCHANGED jobs
    /\ UNCHANGED <<documents, projects, templates, records>>

\* self.retry(exc=e): the job is queued again while retries < max_retries,
\* otherwise the exception is raised and the job ends failed.
Retry(job, err) ==
    IF job.retries < MaxRetries
    THEN [job EXCEPT !.pc = "queued", !.retries = job.retries + 1, !.result = "retry",
                     !.error = err]
    ELSE [job EXCEPT !.pc = "done", !.result = "exhausted", !.error = err]

Finish(job, result) == [job EXCEPT !.pc = "done", !.result = result]

\* A parse job that leaves a parser failure to the retry path.
ParserFailureRetried(job, err) == Retry(job, err)

\* except DocumentParserError: the job returns an error result, no retry.
ParserFailure(job, err) == [Finish(job, "error:parser") EXCEPT !.error = err]

\* except ExtractionError: the job returns an error result, no retry.
ExtractionFailure(job, err) == [Finish(job, "error:extraction") EXCEPT !.error = err]

(* parse_document_task *)

\* Lines 51-59: the document is read, set to PARSING and committed.
ParseBegin(j) ==
    /\ jobs[j].kind = "parse" /\ jobs[j].pc = "queued"
    /\ HasRoom
    /\ LET d == jobs[j].document_id
       IN IF documents[d].upload_status = "ABSENT"
          THEN /\ jobs' = [jobs EXCEPT ![j] = Finish(@, "error:not_found")]
               /\ UNCHANGED documents
          ELSE /\ documents' = [documents EXCEPT ![d].upload_status = "PARSING"]
               /\ jobs' = [jobs EXCEPT ![j].pc = "parsing", ![j].result = ""]
    /\ UNCHANGED <<projects, templates, records>>

\* Lines 63-78 and 103-113: the parser runs; its text is committed with PARSED,
\* or its DocumentParserError is committed as FAILED and the job returns.
ParseRun(j) ==
    /\ jobs[j].kind = "parse" /\ jobs[j].pc = "parsing"
    /\ LET d == jobs[j].document_id
       IN \E parsed \in BOOLEAN :
             IF parsed
             THEN /\ documents' = [documents EXCEPT ![d] =
                        [upload_status |-> "PARSED", parsed_text |-> FileText[d],
                         error_message |-> NoneVal]]
                  /\ jobs' = [jobs EXCEPT ![j].pc = "trigger"]
             ELSE LET err == <<"Parsing failed", j, jobs[j].retries>>
                  IN /\ documents' = [documents EXCEPT ![d].upload_status = "FAILED",
                                                       ![d].error_message = err]
                     /\ jobs' = [jobs EXCEPT ![j] = ParserFailure(@, err)]
    /\ UNCHANGED <<projects, templates, records>>

\* The extraction jobs a successful parse queues for a project's template.
AutoTriggerTwice(job, j, tpl) ==
    IF tpl # NoTemplate
    THEN <<NewJob("extract", job.document_id, tpl, <<j, job.retries + 1>>),
           NewJob("extract", job.document_id, tpl, <<j, job.retries + 1>>)>>
    ELSE <<>>

AutoTrigger(job, j, tpl) ==
    IF tpl # NoTemplate
    THEN <<NewJob("extract", job.document_id, tpl, <<j, job.retries + 1>>)>>
    ELSE <<>>

\* Lines 86-101: extraction is queued if the project has a template; success is returned.
ParseTrigger(j) ==
    /\ jobs[j].kind = "parse" /\ jobs[j].pc = "trigger"
    /\ LET tpl == projects[ProjectOf[jobs[j].document_id]].field_template_id
       IN jobs' = [jobs EXCEPT ![j] = Finish(@, "success")] \o AutoTrigger(jobs[j], j, tpl)
    /\ UNCHANGED <<documents, projects, templates, records>>

\* Lines 115-129: an exception that is no DocumentParserError, raised before
\* the PARSING commit, before the PARSED commit, or after it (the project's
\* lazy load, extract_document_task.delay). The handler sets the document
\* FAILED and the job is retried.
ParseUnexpected(j) ==
    /\ jobs[j].kind = "parse" /\ jobs[j].pc \in {"queued", "parsing", "trigger"}
    /\ MayFault(j)
    /\ LET d == jobs[j].document_id
           err == <<"Unexpected error", j, jobs[j].retries>>
       IN /\ documents' = IF documents[d].upload_status # "ABSENT"
                         THEN [documents EXCEPT ![d].upload_status = "FAILED",
                                                ![d].error_message = err]
                         ELSE documents
          /\ jobs' = [jobs EXCEPT ![j] = Retry(@, err)]
    /\ UNCHANGED <<projects, templates, records>>

(* extract_document_task *)

\* An extraction job that checks only that the document exists.
ExtractRefusalNoStatusCheck(d, t) ==
    IF documents[d].upload_status = "ABSENT" THEN "error:not_found"
    ELSE IF t \notin DOMAIN templates THEN "error:no_template"
    ELSE ""

\* The reason the job returns an error before it touches any record, "" if none.
ExtractRefusal(d, t) ==
    IF documents[d].upload_status = "ABSENT" THEN "error:not_found"
    ELSE IF documents[d].upload_status # "PARSED" THEN "error:not_parsed"
    ELSE IF documents[d].parsed_text \in {NoneVal, <<>>} THEN "error:no_text"
    ELSE IF t \notin DOMAIN templates THEN "error:no_template"
    ELSE ""

\* Lines 162-192: the document, the template and the pair's record are read.
ExtractRead(j) ==
    /\ jobs[j].kind = "extract" /\ jobs[j].pc = "queued"
    /\ LET d == jobs[j].document_id
           t == jobs[j].field_template_id
           refusal == ExtractRefusal(d, t)
       IN IF refusal # ""
          THEN jobs' = [jobs EXCEPT ![j] =
                    [Finish(@, refusal) EXCEPT !.seen = documents[d].upload_status,
                                               !.rec = 0]]
          ELSE \E r \in (IF RecordsOf(d, t) = {} THEN {0} ELSE RecordsOf(d, t)) :
                  jobs' = [jobs EXCEPT ![j].pc = "begin", ![j].rec = r, ![j].result = "",
                                       ![j].seen = documents[d].upload_status]
    /\ UNCHANGED <<documents, projects, templates, records>>

\* An extraction job that adds a record for the pair whether or not one is found.
ExtractBeginAlwaysInserts(j) ==
    /\ jobs[j].kind = "extract" /\ jobs[j].pc = "begin"
    /\ records' = Append(records, NewRecord(jobs[j].document_id,
                             jobs[j].field_template_id, "IN_PROGRESS", NoneVal))
    /\ jobs' = [jobs EXCEPT ![j].pc = "run", ![j].rec = Len(records) + 1]
    /\ UNCHANGED <<documents, projects, templates>>

\* Lines 194-205: the record is inserted, or the one found is reset, as IN_PROGRESS.
ExtractBegin(j) ==
    /\ jobs[j].kind = "extract" /\ jobs[j].pc = "begin"
    /\ IF jobs[j].rec = 0
       THEN /\ records' = Append(records, NewRecord(jobs[j].document_id,
                                jobs[j].field_template_id, "IN_PROGRESS", NoneVal))
            /\ jobs' = [jobs EXCEPT ![j].pc = "run", ![j].rec = Len(records) + 1]
       ELSE /\ records' = [records EXCEPT ![jobs[j].rec].extraction_status = "IN_PROGRESS",
                                          ![jobs[j].rec].error_message = NoneVal]
            /\ jobs' = [jobs EXCEPT ![j].pc = "run"]
    /\ UNCHANGED <<documents, projects, templates>>

\* Lines 213-224 and 244-253: the engine runs; its fields are committed with
\* COMPLETED, or its ExtractionError is committed as FAILED and the job returns.
ExtractRun(j) ==
    /\ jobs[j].kind = "extract" /\ jobs[j].pc = "run"
    /\ LET r == jobs[j].rec
           t == jobs[j].field_template_id
       IN \/ \E reply \in ModelReplies :
                /\ records' = [records EXCEPT
                        ![r].extracted_fields = ParseResponse(<<>>, reply, templates[t].fields),
                        ![r].extraction_status = "COMPLETED",
                        ![r].error_message = NoneVal]
                /\ jobs' = [jobs EXCEPT ![j].pc = "stats"]
          \/ LET err == <<"Extraction failed", j, jobs[j].retries>>
             IN /\ records' = [records EXCEPT ![r].extraction_status = "FAILED",
                                              ![r].error_message = err]
                /\ jobs' = [jobs EXCEPT ![j] = ExtractionFailure(@, err)]
    /\ UNCHANGED <<documents, projects, templates>>

\* Lines 226-242: the statistics are computed and success returned.
ExtractReturn(j) ==
    /\ jobs[j].kind = "extract" /\ jobs[j].pc = "stats"
    /\ jobs' = [jobs EXCEPT ![j] = Finish(@, "success")]
    /\ UNCHANGED <<documents, projects, templates, records>>

\* What the handler of lines 255-268 may leave in the table: nothing new
\* while extracted_record is not yet bound, otherwise FAILED and the message
\* on the job's record; a record the job had only added is inserted by the
\* handler's commit, or was dropped by the rollback of the failed one.
FailRecord(job, err) ==
    IF job.pc = "queued" THEN {records}
    ELSE IF job.rec = 0
    THEN {records,
          Append(records, NewRecord(job.document_id, job.field_template_id, "FAILED", err))}
    ELSE {[records EXCEPT ![job.rec].extraction_status = "FAILED",
                          ![job.rec].error_message = err]}

\* Lines 255-271: an exception that is no ExtractionError, raised before the
\* record is looked up, before the IN_PROGRESS commit, before the COMPLETED
\* commit or after it. The handler updates the record it has, if any, and
\* the job is retried.
ExtractUnexpected(j) ==
    /\ jobs[j].kind = "extract" /\ jobs[j].pc \in {"queued", "begin", "run", "stats"}
    /\ MayFault(j)
    /\ LET err == <<"Unexpected error", j, jobs[j].retries>>
       IN /\ records' \in FailRecord(jobs[j], err)
          /\ jobs' = [jobs EXCEPT ![j] = Retry(@, err)]
    /\ UNCHANGED <<documents, projects, templates>>

\* The queue delivers the message of a job a second time (at-least-once delivery).
Redeliveries == {k \in JobIds : jobs[k].origin[1] = -1}

Redeliver(j) ==
    /\ Cardinality(Redeliveries) < MaxRedeliver
    /\ HasRoom
    /\ jobs[j].pc # "queued"
    /\ jobs' = Append(jobs, [NewJob(jobs[j].kind, jobs[j].document_id,
                                    jobs[j].field_template_id, <<-1, j>>)
                             EXCEPT !.retries = jobs[j].retries])
    /\ UNCHANGED <<documents, projects, templates, records>>

(***************************************************************************)
(* Review endpoints: create_review_record and bulk_create_reviews           *)
(* reviews is the committed content of the review_records table; requests   *)
(* are served one after the other, each in its own session.                 *)
(* tReply is the request served last, with its answer.                     *)
(***************************************************************************)

\* Review submissions accepted in one run, and the items of one bulk request.
MaxSubmitted == 3
MaxBulk == 2

\* Extracted record ids a request may name: 1 is stored, 2 is not.
ReviewRecordIds == {1, 2}

ReviewValues ==
    {[review_status |-> "CONFIRMED", manual_value |-> NoneVal, reviewer_notes |-> NoneVal],
     [review_status |-> "REJECTED", manual_value |-> NoneVal, reviewer_notes |-> <<"n">>],
     [review_status |-> "MANUAL_UPDATED", manual_value |-> <<"x">>, reviewer_notes |-> NoneVal]}

\* ReviewRecordCreate
ReviewRecordCreate ==
    {[extracted_record_id |-> r, field_id |-> f, review_status |-> v.review_status,
      manual_value |-> v.manual_value, reviewer_notes |-> v.reviewer_notes] :
        r \in ReviewRecordIds, f \in {"f1", "zz"}, v \in ReviewValues}

BulkRequests ==
    UNION {[1..n -> ReviewRecordCreate] : n \in 0..MaxBulk}

\* select(ReviewRecord).where(extracted_record_id == ..., field_id == ...)
ReviewsOf(rows, rid, fid) ==
    {i \in 1..Len(rows) : rows[i].extracted_record_id = rid /\ rows[i].field_id = fid}

\* scalar_one_or_none() raises when the select finds several rows.
LookupRaises(rows, data) ==
    Cardinality(ReviewsOf(rows, data.extracted_record_id, data.field_id)) > 1

\* ReviewRecord(...) as both endpoints build it.
NewReview(data) ==
    [extracted_record_id |-> data.extracted_record_id, field_id |-> data.field_id,
     review_status |-> data.review_status, manual_value |-> data.manual_value,
     reviewer_notes |-> data.reviewer_notes, reviewed_by |-> NoneVal]

\* The three assignments of the update branch.
UpdateReview(row, data) ==
    [row EXCEPT !.review_status = data.review_status,
                !.manual_value = data.manual_value,
                !.reviewer_notes = data.reviewer_notes]

\* What a select inside a unit of work reads: the session flushes its pending
\* rows before it queries, so the unit's own additions are found.
SessionView(committed, work) == work

\* An upsert that adds a row whether or not one is found.
UpsertReviewAlwaysAdds(view, work, data) == Append(work, NewReview(data))

\* "Check if review already exists": the row found is updated, otherwise one is added.
UpsertReview(view, work, data) ==
    LET found == ReviewsOf(view, data.extracted_record_id, data.field_id)
    IN IF found # {}
       THEN [work EXCEPT ![CHOOSE i \in found : TRUE] = UpdateReview(@, data)]
       ELSE Append(work, NewReview(data))

\* The number of the request now served.
ThisRequest ==
    IF submitted = <<>> THEN 1 ELSE submitted[Len(submitted)].request + 1

Accepted(data, op) == [data |-> data, op |-> op, request |-> ThisRequest]

\* The status code create_review_record answers.
CreateReviewCode(data) ==
    IF data.extracted_record_id \notin 1..Len(records) THEN 404
    ELSE IF /\ Truthy(records[data.extracted_record_id].extracted_fields)
            /\ FirstWithId(records[data.extracted_record_id].extracted_fields,
                           data.field_id) = 0
         THEN 400
    ELSE IF LookupRaises(reviews, data) THEN 500
    ELSE 201

\* create_review_record
CreateReviewRecord(data) ==
    /\ Len(submitted) < MaxSubmitted
    /\ IF CreateReviewCode(data) = 201
       THEN /\ reviews' = UpsertReview(reviews, reviews, data)
            /\ submitted' = Append(submitted, Accepted(data, "create"))
       ELSE UNCHANGED <<reviews, submitted>>
    /\ tReply' = [op |-> "create", code |-> CreateReviewCode(data)]
    /\ UNCHANGED pipeVars

\* The loop of bulk_create_reviews: the session's rows after the items, an
\* item whose lookup raises being reported and skipped.
RECURSIVE BulkWork(_, _, _)
BulkWork(committed, work, items) ==
    IF items = <<>> THEN work
    ELSE LET view == SessionView(committed, work)
         IN BulkWork(committed,
                     IF LookupRaises(view, Head(items)) THEN work
                     ELSE UpsertReview(view, work, Head(items)),
                     Tail(items))

\* The items of a bulk request that the loop applied, in order.
RECURSIVE BulkApplied(_, _, _)
BulkApplied(committed, work, items) ==
    IF items = <<>> THEN <<>>
    ELSE LET view == SessionView(committed, work)
         IN IF LookupRaises(view, Head(items))
            THEN BulkApplied(committed, work, Tail(items))
            ELSE <<Accepted(Head(items), "bulk")>>
                 \o BulkApplied(committed, UpsertReview(view, work, Head(items)), Tail(items))

\* ForeignKey("extracted_records.id"): the commit fails for a row of no stored record.
CommitFails(work) ==
    \E i \in 1..Len(work) : work[i].extracted_record_id \notin 1..Len(records)

\* The errors list of bulk_create_reviews: the items whose iteration raised.
RECURSIVE BulkErrors(_, _, _)
BulkErrors(committed, work, items) ==
    IF items = <<>> THEN <<>>
    ELSE LET view == SessionView(committed, work)
         IN IF LookupRaises(view, Head(items))
            THEN <<Head(items)>> \o BulkErrors(committed, work, Tail(items))
            ELSE BulkErrors(committed, UpsertReview(view, work, Head(items)), Tail(items))

\* bulk_create_reviews: one commit for all items, or none of them stored and
\* the commit's exception answered 500; tReply keeps the request and the
\* answer, created and updated counted together.
BulkCreateReviews(items) ==
    /\ Len(submitted) + Len(items) <= MaxSubmitted
    /\ LET work == BulkWork(reviews, reviews, items)
           errors == BulkErrors(reviews, reviews, items)
       IN IF CommitFails(work)
          THEN /\ UNCHANGED <<reviews, submitted>>
               /\ tReply' = [op |-> "bulk", code |-> 500, items |-> items]
          ELSE /\ reviews' = work
               /\ submitted' = submitted \o BulkApplied(reviews, reviews, items)
               /\ tReply' = [op |-> "bulk", code |-> 201, items |-> items,
                             stored |-> Len(items) - Len(errors), errors |-> errors]
    /\ UNCHANGED pipeVars

\* One stored extracted record, with its fields or still without them.
InitReview ==
    /\ documents = [d \in DocIds |-> [upload_status |-> "PARSED", parsed_text |-> FileText[d],
                                      error_message |-> NoneVal]]
    /\ projects = [p \in ProjIds |-> [field_template_id |-> "t1", status |-> "ACTIVE"]]
    /\ templates = [t \in {"t1"} |-> [fields |-> <<F1, F2>>, version |-> 1]]
    /\ records \in {<<NewRecord("d1", "t1", "IN_PROGRESS", NoneVal)>>,
                    <<[NewRecord("d1", "t1", "COMPLETED", NoneVal)
                         EXCEPT !.extracted_fields = FillMissing(<<>>, <<F1, F2>>)]>>}
    /\ jobs = <<>>
    /\ reviews = <<>>
    /\ submitted = <<>>
    \* The stepwise chunker and the stepwise engine take no part.
    /\ cText = <<>> /\ cSize = 1 /\ cOverlap = 0 /\ cStart = 0 /\ cChunks = <<>>
    /\ cPc = "idle"
    /\ eText = <<>> /\ eDefs = <<>> /\ eChunks = <<>> /\ ePrompts = <<>> /\ eCalls = <<>>
    /\ eCur = <<>> /\ eUsed = 0 /\ eResult = <<>> /\ ePc = "idle"
    /\ nRaw = <<>> /\ nType = "TEXT" /\ nOut = <<>> /\ nPc = "idle"
    /\ table = [code |-> 0, columns |-> <<>>, rows |-> <<>>]
    /\ tReply = [op |-> "none", code |-> 0, fields |-> <<>>, trigger |-> FALSE, failed |-> {}]

(***************************************************************************)
(* Review table: get_project_review_table                                   *)
(* The store holds three documents, "d1" and "d2" of project "p1" (template *)
(* "t1") and "d3" of project "p2" (no template); the position of a record   *)
(* in records, and of a review in reviews, is its order of creation.        *)
(***************************************************************************)

\* Extracted records in the store at the start, and reviews submitted after.
MaxTableRecords == 2
MaxTableReviews == 2

TableDocIds == {"d1", "d2", "d3"}
TableProjIds == {"p1", "p2"}

TableDocuments ==
    [d \in TableDocIds |->
        [upload_status |-> "PARSED", parsed_text |-> FileText["d1"], error_message |-> NoneVal,
         project_id |-> IF d = "d3" THEN "p2" ELSE "p1",
         created_at |-> CASE d = "d1" -> 1 [] d = "d2" -> 2 [] OTHER -> 3]]

\* The field the template "t1" gained in its second version.
F3 == [field_id |-> "f3", field_name |-> "Term", field_type |-> "TEXT"]

\* extracted_fields as extract_document_task stored them: for the template's
\* three fields, or for its first two before the template gained the third.
FieldsOfAll ==
    ParseResponse(<<>>, <<Item(ItemKeys, "f1", <<"y">>, 7, TRUE, <<"p1">>)>>, <<F1, F2, F3>>)
FieldsOfFirstTwo ==
    ParseResponse(<<>>, <<Item(ItemKeys, "f1", <<"n">>, 7, TRUE, <<>>)>>, <<F1, F2>>)

CompletedRecord(doc, tpl, fields) ==
    [NewRecord(doc, tpl, "COMPLETED", NoneVal) EXCEPT !.extracted_fields = fields]

\* The rows the extracted_records table may hold at the start.
StoredRecords ==
    {NewRecord("d1", "t1", "IN_PROGRESS", NoneVal),
     NewRecord("d1", "t1", "FAILED", <<"e">>),
     CompletedRecord("d1", "t1", FieldsOfAll),
     CompletedRecord("d1", "t1", FieldsOfFirstTwo),
     CompletedRecord("d1", "t2", FieldsOfAll),
     NewRecord("d2", "t1", "FAILED", <<"e">>),
     CompletedRecord("d2", "t1", FieldsOfAll)}

\* ReviewRecordCreate bodies submitted while the table is read.
TableReviewCreate ==
    {[extracted_record_id |-> r, field_id |-> f, review_status |-> v[1],
      manual_value |-> v[2], reviewer_notes |-> NoneVal] :
        r \in 1..MaxTableRecords, f \in {"f1", "f3"},
        v \in {<<"CONFIRMED", NoneVal>>, <<"MANUAL_UPDATED", <<"x">>>>,
               <<"MANUAL_UPDATED", <<>>>>}}

\* select(Document).where(project_id == ...).order_by(created_at.asc())
RECURSIVE OrderByCreatedAt(_)
OrderByCreatedAt(ids) ==
    IF ids = {} THEN <<>>
    ELSE LET first == CHOOSE d \in ids :
                        \A e \in ids : documents[d].created_at <= documents[e].created_at
         IN <<first>> \o OrderByCreatedAt(ids \ {first})

DocumentsOfProject(project_id) ==
    OrderByCreatedAt({d \in DOMAIN documents : documents[d].project_id = project_id})

\* A selection that prefers the latest COMPLETED record of the pair.
LatestExtractionCompletedFirst(document_id, field_template_id) ==
    LET all == RecordsOf(document_id, field_template_id)
        done == {r \in all : records[r].extraction_status = "COMPLETED"}
        pick == IF done # {} THEN done ELSE all
    IN IF pick = {} THEN 0 ELSE CHOOSE r \in pick : \A q \in pick : q <= r

\* "Get latest extraction for this document": order_by(created_at.desc()).limit(1),
\* as a record id, 0 for None.
LatestExtraction(document_id, field_template_id) ==
    LET all == RecordsOf(document_id, field_template_id)
    IN IF all = {} THEN 0 ELSE CHOOSE r \in all : \A q \in all : q <= r

\* reviews.get(field_id) of {r.field_id: r for r in reviews}: of several rows
\* of one field the dict keeps the last; an index into reviews, 0 for None.
ReviewOfField(extraction, field_id) ==
    LET found == ReviewsOf(reviews, extraction, field_id)
    IN IF found = {} THEN 0 ELSE CHOOSE k \in found : \A q \in found : q <= k

FieldCell(name, extracted, normalized, confidence, review_status, manual, final, cites) ==
    [field_name |-> name, extracted_value |-> extracted, normalized_value |-> normalized,
     confidence_score |-> confidence, review_status |-> review_status,
     manual_value |-> manual, final_value |-> final, citations |-> cites]

\* A final value that is the manual value of any review, empty or not.
FinalValueOfAnyReview(review, normalized) ==
    IF review # 0 THEN reviews[review].manual_value ELSE normalized

\* review.manual_value if review and review.manual_value else normalized_value
FinalValue(review, normalized) ==
    IF review # 0 /\ Truthy(reviews[review].manual_value)
    THEN reviews[review].manual_value
    ELSE normalized

\* The cell of one field of a COMPLETED extraction.
CompletedCell(extraction, field_def) ==
    LET fields == records[extraction].extracted_fields
        i == FirstWithId(fields, field_def.field_id)
        review == ReviewOfField(extraction, field_def.field_id)
        manual == IF review # 0 THEN reviews[review].manual_value ELSE NoneVal
    IN IF i # 0
       THEN FieldCell(field_def.field_name, fields[i].raw_value, fields[i].normalized_value,
                      fields[i].confidence_score,
                      IF review # 0 THEN reviews[review].review_status ELSE "PENDING",
                      manual, FinalValue(review, fields[i].normalized_value),
                      fields[i].citations)
       ELSE FieldCell(field_def.field_name, NoneVal, NoneVal, 0, "MISSING_DATA",
                      manual, manual, <<>>)

\* "No extraction or failed extraction"
NotExtractedCell(field_def) ==
    FieldCell(field_def.field_name, NoneVal, NoneVal, 0, "NOT_EXTRACTED",
              NoneVal, NoneVal, <<>>)

\* field_data of one document: a dict keyed by field_id, a later definition
\* of the same field_id replacing an earlier one.
FieldData(document_id, field_template_id, fields) ==
    LET extraction == LatestExtraction(document_id, field_template_id)
        completed == extraction # 0
                     /\ records[extraction].extraction_status = "COMPLETED"
    IN [id \in {fields[j].field_id : j \in 1..Len(fields)} |->
          LET k == CHOOSE j \in 1..Len(fields) :
                      /\ fields[j].field_id = id
                      /\ \A q \in (j + 1)..Len(fields) : fields[q].field_id # id
          IN IF completed THEN CompletedCell(extraction, fields[k])
             ELSE NotExtractedCell(fields[k])]

ReviewTableResponse(code, columns, rows) ==
    [code |-> code, columns |-> columns, rows |-> rows]

\* get_project_review_table: 404 for no project, 400 for a project without a
\* template, otherwise the columns and one row per document of the project.
GetProjectReviewTable(project_id) ==
    /\ table' =
          IF project_id \notin DOMAIN projects
          THEN ReviewTableResponse(404, <<>>, <<>>)
          ELSE IF projects[project_id].field_template_id = NoTemplate
          THEN ReviewTableResponse(400, <<>>, <<>>)
          ELSE LET tpl == projects[project_id].field_template_id
                   fields == templates[tpl].fields
                   docs == DocumentsOfProject(project_id)
               IN ReviewTableResponse(200,
                     [i \in 1..Len(fields) |-> fields[i].field_name],
                     [i \in 1..Len(docs) |->
                         [document_id |-> docs[i],
                          fields |-> FieldData(docs[i], tpl, fields)]])
    /\ UNCHANGED <<pipeVars, reviewVars, replyVars>>

\* A review submitted before the table is read.
SubmitReview(data) ==
    /\ table.code = 0
    /\ Len(submitted) < MaxTableReviews
    /\ CreateReviewRecord(data)
    /\ UNCHANGED table

InitTable ==
    /\ documents = TableDocuments
    /\ projects = [p \in TableProjIds |->
                     [field_template_id |-> IF p = "p1" THEN "t1" ELSE NoTemplate,
                      status |-> "ACTIVE"]]
    /\ templates = [t \in {"t1", "t2"} |-> [fields |-> <<F1, F2, F3>>, version |-> 2]]
    /\ records \in UNION {[1..n -> StoredRecords] : n \in 0..MaxTableRecords}
    /\ jobs = <<>>
    /\ reviews = <<>>
    /\ submitted = <<>>
    /\ table = ReviewTableResponse(0, <<>>, <<>>)
    \* The chunker, the engine and the normaliser take no part.
    /\ cText = <<>> /\ cSize = 1 /\ cOverlap = 0 /\ cStart = 0 /\ cChunks = <<>>
    /\ cPc = "idle"
    /\ eText = <<>> /\ eDefs = <<>> /\ eChunks = <<>> /\ ePrompts = <<>> /\ eCalls = <<>>
    /\ eCur = <<>> /\ eUsed = 0 /\ eResult = <<>> /\ ePc = "idle"
    /\ nRaw = <<>> /\ nType = "TEXT" /\ nOut = <<>> /\ nPc = "idle"
    /\ tReply = [op |-> "none", code |-> 0, fields |-> <<>>, trigger |-> FALSE, failed |-> {}]

(***************************************************************************)
(* Field templates: update_field_template, delete_field_template and        *)
(* re_extract_project_task                                                  *)
(* The store holds the template "t1", the projects "p1" (documents "d1",    *)
(* "d2", "d3") and "p2" (document "d4"). A queued job carries as origin what  *)
(* queued it: the template version an update made, or the re-extract job;   *)
(* tReply is the request or job served last, with its answer.               *)
(***************************************************************************)

\* The highest version a template is taken to, and the longest queue.
MaxVersion == 3
MaxQueue == 3

TemplateUpdateFields == {NoneVal, <<F1, F2>>, <<F2, F1>>, <<F1, F1>>}

\* FieldTemplateUpdate
FieldTemplateUpdate ==
    [name : {NoneVal, <<"n">>}, fields : TemplateUpdateFields]

\* What tReply keeps of a step: the operation, its status code, the field
\* list and the flag of the request, and the targets whose delay() raised.
Reply(op, code, fields, trigger, failed) ==
    [op |-> op, code |-> code, fields |-> fields, trigger |-> trigger, failed |-> failed]

\* The rows of a query result, in the order the store returns them.
RECURSIVE Rows(_)
Rows(ids) ==
    IF ids = {} THEN <<>>
    ELSE LET x == CHOOSE y \in ids : TRUE IN <<x>> \o Rows(ids \ {x})

QueuedJob(kind, target, tpl, origin) ==
    [kind |-> kind, target |-> target, field_template_id |-> tpl, pc |-> "queued",
     origin |-> origin]

\* A template service that stores whatever field list it is given.
NoDuplicateIds(fields) == FALSE

\* len(field_ids) != len(set(field_ids))
HasDuplicateIds(fields) ==
    Len(fields) # Cardinality({fields[i].field_id : i \in 1..Len(fields)})

\* The status code update_field_template answers.
UpdateTemplateCode(template_id, data) ==
    IF template_id \notin DOMAIN templates THEN 404
    ELSE IF data.fields # NoneVal /\ HasDuplicateIds(data.fields) THEN 400
    ELSE 200

\* A version that every accepted field list bumps, changed or not.
NextVersionOnAnyFields(template, fields_json) ==
    IF fields_json # NoneVal THEN template.version + 1 ELSE template.version

\* "Check if fields actually changed": template.version += 1 under
\* fields_json != template.fields.
NextVersion(template, fields_json) ==
    IF fields_json # NoneVal /\ fields_json # template.fields
    THEN template.version + 1
    ELSE template.version

\* Projects of the template whatever their status.
ProjectsToReExtractAnyStatus(template_id) ==
    {p \in DOMAIN projects : projects[p].field_template_id = template_id}

\* select(Project).where(field_template_id == template_id, status == ACTIVE)
ProjectsToReExtract(template_id) ==
    {p \in DOMAIN projects : /\ projects[p].field_template_id = template_id
                             /\ projects[p].status = "ACTIVE"}

\* update_field_template: the name and the fields are stored, the version
\* bumped when the fields changed, and then, on request, one re-extract job
\* queued per project found, a delay() that raises being logged and passed over.
UpdateFieldTemplate(template_id, data, trigger, failed) ==
    LET code == UpdateTemplateCode(template_id, data)
        stored == templates[template_id]
        version == NextVersion(stored, data.fields)
        fields_changed == code = 200 /\ version # stored.version
        found == IF trigger /\ fields_changed THEN ProjectsToReExtract(template_id) ELSE {}
    IN /\ template_id \in DOMAIN templates => templates[template_id].version < MaxVersion
       /\ Len(jobs) + Cardinality(found) <= MaxQueue
       /\ failed \subseteq found
       /\ templates' =
             IF code # 200 THEN templates
             ELSE [templates EXCEPT ![template_id] =
                     [name |-> IF data.name # NoneVal THEN data.name ELSE stored.name,
                      fields |-> IF fields_changed THEN data.fields ELSE stored.fields,
                      version |-> version]]
       /\ jobs' = jobs \o [i \in 1..Cardinality(found \ failed) |->
                             QueuedJob("re_extract_project", Rows(found \ failed)[i],
                                       NoTemplate, version)]
       /\ tReply' = Reply("update", code, data.fields, trigger, failed)
       /\ UNCHANGED <<documents, projects, records>>

\* FieldTemplateCreate: a name and a list of at least one field definition.
FieldTemplateCreate == [name : {<<"n">>}, fields : {<<F1, F2>>, <<F1, F1>>}]

\* The ids the store gives to templates created by requests.
CreatedTemplateIds == {"t2"}

\* create_field_template: 400 for a field list with a repeated field_id,
\* otherwise the template is stored under a new id with version 1.
CreateFieldTemplate(template_data) ==
    /\ CreatedTemplateIds \ DOMAIN templates # {}
    /\ LET id == CHOOSE t \in CreatedTemplateIds : t \notin DOMAIN templates
           code == IF HasDuplicateIds(template_data.fields) THEN 400 ELSE 201
       IN /\ templates' =
                IF code # 201 THEN templates
                ELSE [t \in DOMAIN templates \cup {id} |->
                        IF t = id
                        THEN [name |-> template_data.name, fields |-> template_data.fields,
                              version |-> 1]
                        ELSE templates[t]]
          /\ tReply' = Reply("create", code, template_data.fields, FALSE, {})
    /\ UNCHANGED <<documents, projects, records, jobs>>

\* Templates in use by ACTIVE projects only.
TemplateInUseByActive(template_id) ==
    \E p \in DOMAIN projects : /\ projects[p].field_template_id = template_id
                               /\ projects[p].status = "ACTIVE"

\* "Check if template is being used": select(Project).where(field_template_id == ...)
TemplateInUse(template_id) ==
    \E p \in DOMAIN projects : projects[p].field_template_id = template_id

\* The status code delete_field_template answers; the commit of the delete
\* fails while an extracted record still refers to the template
\* (extracted_records.field_template_id is a non-null foreign key).
DeleteTemplateCode(template_id) ==
    IF template_id \notin DOMAIN templates THEN 404
    ELSE IF TemplateInUse(template_id) THEN 400
    ELSE IF \E r \in 1..Len(records) : records[r].field_template_id = template_id THEN 500
    ELSE 204

\* delete_field_template
DeleteFieldTemplate(template_id) ==
    /\ templates' = IF DeleteTemplateCode(template_id) = 204
                    THEN [t \in DOMAIN templates \ {template_id} |-> templates[t]]
                    ELSE templates
    /\ tReply' = Reply("delete", DeleteTemplateCode(template_id), <<>>, FALSE, {})
    /\ UNCHANGED <<documents, projects, records, jobs>>

\* Documents.filter(project_id == ..., upload_status == PARSED)
ParsedDocuments(project_id) ==
    {d \in DOMAIN documents : /\ documents[d].project_id = project_id
                              /\ documents[d].upload_status = "PARSED"}

\* re_extract_project_task: one extraction job per PARSED document of the
\* project, for the project's template of the moment; a delay() that raises
\* is logged and the loop continues.
ReExtractProject(j, failed) ==
    LET project_id == jobs[j].target
        tpl == projects[project_id].field_template_id
        found == IF tpl = NoTemplate THEN {} ELSE ParsedDocuments(project_id)
    IN /\ jobs[j].kind = "re_extract_project"
       /\ jobs[j].pc = "queued"
       /\ Len(jobs) + Cardinality(found) <= MaxQueue
       /\ failed \subseteq found
       /\ jobs' = [jobs EXCEPT ![j].pc = "done"]
                  \o [i \in 1..Cardinality(found \ failed) |->
                        QueuedJob("extract_document", Rows(found \ failed)[i], tpl, j)]
       /\ tReply' = Reply("re_extract", IF tpl = NoTemplate THEN 400 ELSE 200, <<>>, FALSE,
                          failed)
       /\ UNCHANGED <<documents, projects, templates, records>>

\* delete_project: the project is archived, not removed.
DeleteProject(p) ==
    /\ projects[p].status # "ARCHIVED"
    /\ projects' = [projects EXCEPT ![p].status = "ARCHIVED"]
    /\ tReply' = Reply("none", 0, <<>>, FALSE, {})
    /\ UNCHANGED <<documents, templates, records, jobs>>

\* update_project with a field_template_id of a stored template, or none.
SetProjectTemplate(p, t) ==
    /\ t \in DOMAIN templates \cup {NoTemplate}
    /\ UpdateProject(p, t)
    /\ tReply' = Reply("none", 0, <<>>, FALSE, {})

InitTemplate ==
    /\ documents =
          [d \in {"d1", "d2", "d3", "d4"} |->
              [upload_status |-> CASE d = "d3" -> "FAILED" [] d = "d4" -> "UPLOADED"
                                   [] OTHER -> "PARSED",
               parsed_text |-> NoneVal, error_message |-> NoneVal,
               project_id |-> IF d = "d4" THEN "p2" ELSE "p1"]]
    /\ projects = [p \in {"p1", "p2"} |-> [field_template_id |-> "t1", status |-> "ACTIVE"]]
    /\ templates = [t \in {"t1"} |-> [name |-> <<"m">>, fields |-> <<F1, F2>>, version |-> 1]]
    /\ records \in {<<>>, <<NewRecord("d1", "t1", "FAILED", <<"e">>)>>}
    /\ jobs = <<>>
    \* The chunker, the engine, the normaliser, the reviews and the table take no part.
    /\ cText = <<>> /\ cSize = 1 /\ cOverlap = 0 /\ cStart = 0 /\ cChunks = <<>>
    /\ cPc = "idle"
    /\ eText = <<>> /\ eDefs = <<>> /\ eChunks = <<>> /\ ePrompts = <<>> /\ eCalls = <<>>
    /\ eCur = <<>> /\ eUsed = 0 /\ eResult = <<>> /\ ePc = "idle"
    /\ reviews = <<>> /\ submitted = <<>>
    /\ nRaw = <<>> /\ nType = "TEXT" /\ nOut = <<>> /\ nPc = "idle"
    /\ table = [code |-> 0, columns |-> <<>>, rows |-> <<>>]
    /\ tReply = [op |-> "none", code |-> 0, fields |-> <<>>, trigger |-> FALSE, failed |-> {}]

NextChunk == ChunkStep /\ UNCHANGED <<engineVars, pipeVars, reviewVars, normVars, tableVars, replyVars>>

NextEngine ==
    /\ \/ ExtractStart
       \/ InvokeLLM
       \/ ParseItem
       \/ ParseFinish
    /\ UNCHANGED <<chunkVars, pipeVars, reviewVars, normVars, tableVars, replyVars>>

NextPipe ==
    /\ \/ \E d \in DocIds : UploadDocument(d)
       \/ \E p \in ProjIds, t \in {NoTemplate, "t1"} : UpdateProject(p, t)
       \/ \E d \in DocIds, t \in TemplateIds, force \in BOOLEAN : TriggerExtraction(d, t, force)
       \/ \E j \in JobIds : ParseBegin(j)
       \/ \E j \in JobIds : ParseRun(j)
       \/ \E j \in JobIds : ParseTrigger(j)
       \/ \E j \in JobIds : ParseUnexpected(j)
       \/ \E j \in JobIds : ExtractRead(j)
       \/ \E j \in JobIds : ExtractBegin(j)
       \/ \E j \in JobIds : ExtractRun(j)
       \/ \E j \in JobIds : ExtractReturn(j)
       \/ \E j \in JobIds : ExtractUnexpected(j)
       \/ \E j \in JobIds : Redeliver(j)
    /\ UNCHANGED <<chunkVars, engineVars, reviewVars, normVars, tableVars, replyVars>>

NextReview ==
    /\ \/ \E data \in ReviewRecordCreate : CreateReviewRecord(data)
       \/ \E items \in BulkRequests : BulkCreateReviews(items)
    /\ UNCHANGED <<chunkVars, engineVars, normVars, tableVars>>

NextNormalize ==
    NormalizeCall /\ UNCHANGED <<chunkVars, engineVars, pipeVars, reviewVars, tableVars, replyVars>>

NextTable ==
    /\ \/ \E data \in TableReviewCreate : SubmitReview(data)
       \/ \E p \in TableProjIds \cup {"px"} : GetProjectReviewTable(p)
    /\ UNCHANGED <<chunkVars, engineVars, normVars>>

NextTemplate ==
    /\ \/ \E t \in {"t1", "tx"}, data \in FieldTemplateUpdate, trigger \in BOOLEAN,
             failed \in SUBSET DOMAIN projects :
             UpdateFieldTemplate(t, data, trigger, failed)
       \/ \E t \in {"t1", "tx"} : DeleteFieldTemplate(t)
       \/ \E j \in 1..Len(jobs), failed \in SUBSET DOMAIN documents : ReExtractProject(j, failed)
       \/ \E p \in DOMAIN projects : DeleteProject(p)
       \/ \E p \in DOMAIN projects, t \in {NoTemplate, "t1"} : SetProjectTemplate(p, t)
    /\ UNCHANGED <<chunkVars, engineVars, reviewVars, normVars, tableVars>>

SpecChunk == InitChunk /\ [][NextChunk]_vars

SpecEngine == InitEngine /\ [][NextEngine]_vars

Spec == InitPipe /\ [][NextPipe]_vars

SpecReview == InitReview /\ [][NextReview]_vars

SpecNormalize == InitNormalize /\ [][NextNormalize]_vars

SpecTable == InitTable /\ [][NextTable]_vars

SpecTemplate == InitTemplate /\ [][NextTemplate]_vars

(***************************************************************************)
(* The Celery jobs under the worker's time limit, with a queue that runs    *)
(* every job it holds                                                       *)
(***************************************************************************)

\* task_time_limit: the worker process of an execution that has run past the
\* hard limit is killed; no handler of the task runs, the message was
\* acknowledged when the execution started and the job is not queued again.
TaskTimeLimit(j) ==
    /\ jobs[j].pc \in {"parsing", "trigger", "begin", "run", "stats"}
    /\ jobs' = [jobs EXCEPT ![j] = Finish(@, "killed")]
    /\ UNCHANGED <<documents, projects, templates, records>>

\* Lines 118-126 and 262-268: the commit of the FAILED status in the handler
\* of an unexpected exception raises itself; the bare except swallows it,
\* nothing is written and the job goes on to self.retry().
FailureCommitFails(j) ==
    /\ jobs[j].pc \in {"parsing", "trigger", "begin", "run", "stats"}
    /\ MayFault(j)
    /\ jobs' = [jobs EXCEPT ![j] = Retry(@, <<"Unexpected error", j, jobs[j].retries>>)]
    /\ UNCHANGED <<documents, projects, templates, records>>

\* Some step of job j: the start of a queued execution or of a scheduled
\* retry, or the next step of a running one.
JobRuns(j) ==
    /\ j \in JobIds
    /\ \/ ParseBegin(j) \/ ParseRun(j) \/ ParseTrigger(j) \/ ParseUnexpected(j)
       \/ ExtractRead(j) \/ ExtractBegin(j) \/ ExtractRun(j) \/ ExtractReturn(j)
       \/ ExtractUnexpected(j) \/ TaskTimeLimit(j) \/ FailureCommitFails(j)
    /\ UNCHANGED <<chunkVars, engineVars, reviewVars, normVars, tableVars, replyVars>>

NextLive ==
    /\ \/ \E d \in DocIds : UploadDocument(d)
       \/ \E j \in JobIds : ParseBegin(j)
       \/ \E j \in JobIds : ParseRun(j)
       \/ \E j \in JobIds : ParseTrigger(j)
       \/ \E j \in JobIds : ParseUnexpected(j)
       \/ \E j \in JobIds : ExtractRead(j)
       \/ \E j \in JobIds : ExtractBegin(j)
       \/ \E j \in JobIds : ExtractRun(j)
       \/ \E j \in JobIds : ExtractReturn(j)
       \/ \E j \in JobIds : ExtractUnexpected(j)
       \/ \E j \in JobIds : TaskTimeLimit(j)
       \/ \E j \in JobIds : FailureCommitFails(j)
    /\ UNCHANGED <<chunkVars, engineVars, reviewVars, normVars, tableVars, replyVars>>

\* Every queued job and every scheduled retry is eventually executed, and a
\* running execution goes on until it ends.
EveryJobRuns == \A j \in 1..MaxJobs : WF_vars(JobRuns(j))

SpecLive == InitPipe /\ [][NextLive]_vars /\ EveryJobRuns

(***************************************************************************)
(* Templates created and updated while documents are extracted with them    *)
(* The store holds the parsed document "d1" of project "p1" and the          *)
(* template "t1", the queue one extraction job for the two; updates ask for *)
(* no re-extraction.                                                        *)
(***************************************************************************)

InitCatalog ==
    /\ documents = [d \in DocIds |-> [upload_status |-> "PARSED", parsed_text |-> FileText[d],
                                      error_message |-> NoneVal]]
    /\ projects = [p \in ProjIds |-> [field_template_id |-> "t1", status |-> "ACTIVE"]]
    /\ templates = [t \in {"t1"} |-> [name |-> <<"m">>, fields |-> <<F1, F2>>, version |-> 1]]
    /\ records = <<>>
    /\ jobs = <<NewJob("extract", "d1", "t1", <<0, 0>>)>>
    \* The chunker, the engine, the normaliser, the reviews and the table take no part.
    /\ cText = <<>> /\ cSize = 1 /\ cOverlap = 0 /\ cStart = 0 /\ cChunks = <<>>
    /\ cPc = "idle"
    /\ eText = <<>> /\ eDefs = <<>> /\ eChunks = <<>> /\ ePrompts = <<>> /\ eCalls = <<>>
    /\ eCur = <<>> /\ eUsed = 0 /\ eResult = <<>> /\ ePc = "idle"
    /\ reviews = <<>> /\ submitted = <<>>
    /\ nRaw = <<>> /\ nType = "TEXT" /\ nOut = <<>> /\ nPc = "idle"
    /\ table = [code |-> 0, columns |-> <<>>, rows |-> <<>>]
    /\ tReply = [op |-> "none", code |-> 0, fields |-> <<>>, trigger |-> FALSE, failed |-> {}]

NextCatalog ==
    /\ \/ \E template_data \in FieldTemplateCreate : CreateFieldTemplate(template_data)
       \/ \E t \in {"t1", "t2", "tx"},
             data \in [name : {NoneVal, <<"n">>},
                       fields : {NoneVal, <<F1, F2>>, <<F2, F3>>, <<F1, F1>>}] :
             UpdateFieldTemplate(t, data, FALSE, {})
       \/ \E j \in JobIds : ExtractRead(j) /\ UNCHANGED tReply
       \/ \E j \in JobIds : ExtractBegin(j) /\ UNCHANGED tReply
       \/ \E j \in JobIds : ExtractRun(j) /\ UNCHANGED tReply
       \/ \E j \in JobIds : ExtractReturn(j) /\ UNCHANGED tReply
    /\ UNCHANGED <<chunkVars, engineVars, reviewVars, normVars, tableVars>>

SpecCatalog == InitCatalog /\ [][NextCatalog]_vars

(***************************************************************************)
(* Extraction run again for a reviewed pair, and the review table read      *)
(* The store is that of the review table, with one COMPLETED record of      *)
(* ("d1", "t1"); one extraction job for the pair is queued.                  *)
(***************************************************************************)

InitRerun ==
    /\ documents = TableDocuments
    /\ projects = [p \in TableProjIds |->
                     [field_template_id |-> IF p = "p1" THEN "t1" ELSE NoTemplate,
                      status |-> "ACTIVE"]]
    /\ templates = [t \in {"t1", "t2"} |-> [fields |-> <<F1, F2, F3>>, version |-> 2]]
    /\ records = <<CompletedRecord("d1", "t1", FieldsOfFirstTwo)>>
    /\ jobs = <<NewJob("extract", "d1", "t1", <<0, 0>>)>>
    /\ reviews = <<>>
    /\ submitted = <<>>
    /\ table = ReviewTableResponse(0, <<>>, <<>>)
    \* The chunker, the engine and the normaliser take no part.
    /\ cText = <<>> /\ cSize = 1 /\ cOverlap = 0 /\ cStart = 0 /\ cChunks = <<>>
    /\ cPc = "idle"
    /\ eText = <<>> /\ eDefs = <<>> /\ eChunks = <<>> /\ ePrompts = <<>> /\ eCalls = <<>>
    /\ eCur = <<>> /\ eUsed = 0 /\ eResult = <<>> /\ ePc = "idle"
    /\ nRaw = <<>> /\ nType = "TEXT" /\ nOut = <<>> /\ nPc = "idle"
    /\ tReply = [op |-> "none", code |-> 0, fields |-> <<>>, trigger |-> FALSE, failed |-> {}]

NextRerun ==
    /\ \/ \E data \in TableReviewCreate : SubmitReview(data)
       \/ \E j \in JobIds : ExtractRead(j) /\ UNCHANGED <<reviewVars, tableVars, replyVars>>
       \/ \E j \in JobIds : ExtractBegin(j) /\ UNCHANGED <<reviewVars, tableVars, replyVars>>
       \/ \E j \in JobIds : ExtractRun(j) /\ UNCHANGED <<reviewVars, tableVars, replyVars>>
       \/ \E j \in JobIds : ExtractReturn(j) /\ UNCHANGED <<reviewVars, tableVars, replyVars>>
       \/ \E j \in JobIds : ExtractUnexpected(j) /\ UNCHANGED <<reviewVars, tableVars, replyVars>>
       \/ GetProjectReviewTable("p1")
    /\ UNCHANGED <<chunkVars, engineVars, normVars>>

SpecRerun == InitRerun /\ [][NextRerun]_vars

(***************************************************************************)
(* Properties of the chunker                                                *)
(***************************************************************************)

\* The first chunk followed by every later chunk without its first overlap characters.
RECURSIVE Reassemble(_, _)
Reassemble(chunks, overlap) ==
    IF chunks = <<>> THEN <<>>
    ELSE IF Len(chunks) = 1 THEN chunks[1]
    ELSE Reassemble(SubSeq(chunks, 1, Len(chunks) - 1), overlap)
         \o SubSeq(chunks[Len(chunks)], overlap + 1, Len(chunks[Len(chunks)]))

\* C10: for 0 <= overlap < chunk_size, _create_chunks returns chunks of which
\* none is longer than chunk_size and all but the last are exactly that long,
\* each chunk begins with the previous chunk's last overlap characters, and the
\* first chunk followed by the later chunks without their first overlap
\* characters is the text.
ChunksCoverText ==
    (cPc = "done" /\ cOverlap < cSize) =>
        /\ \A i \in 1..Len(cChunks) : Len(cChunks[i]) <= cSize
        /\ \A i \in 1..(Len(cChunks) - 1) : Len(cChunks[i]) = cSize
        /\ \A i \in 2..Len(cChunks) :
              /\ Len(cChunks[i]) >= cOverlap
              /\ SubSeq(cChunks[i], 1, cOverlap)
                   = SubSeq(cChunks[i - 1], Len(cChunks[i - 1]) - cOverlap + 1,
                            Len(cChunks[i - 1]))
        /\ Reassemble(cChunks, cOverlap) = cText
        /\ cChunks = CreateChunks(cText, cSize, cOverlap)

\* A text of two kinds of characters cut into three chunks that overlap, the last one short.
ChunksCoverTextWitness ==
    /\ cPc = "done" /\ cOverlap >= 1 /\ cOverlap < cSize
    /\ Len(cChunks) >= 3
    /\ Len(cChunks[Len(cChunks)]) < cSize
    /\ \E i, k \in 1..Len(cText) : cText[i] # cText[k]

(***************************************************************************)
(* Properties of the extraction engine                                      *)
(***************************************************************************)

\* The results of a list that carry one field_id.
ResultsOf(results, id) == {i \in 1..Len(results) : results[i].field_id = id}

\* C1: extract() returns exactly as many field results as there are field
\* definitions, and every definition's field_id occurs in exactly one of them,
\* whatever array the model returned, repeated field_ids included.
OneResultPerField ==
    ePc = "done" =>
        /\ Len(eResult) = Len(eDefs)
        /\ \A k \in 1..Len(eDefs) :
              Cardinality(ResultsOf(eResult, eDefs[k].field_id)) = 1

(***************************************************************************)
(* Properties of the review endpoints                                       *)
(***************************************************************************)

SameKey(a, b) ==
    a.extracted_record_id = b.extracted_record_id /\ a.field_id = b.field_id

OneRecordPerPair ==
    \A d \in DocIds, t \in TemplateIds : Cardinality(RecordsOf(d, t)) <= 1

\* The jobs a step has queued.
Queued == (Len(jobs) + 1)..Len(jobs')

\* C4: trigger_extraction queues a job only for a PARSED document; an
\* extraction job that reads another status returns an error and leaves the
\* records alone; and every change of the records is made by an extraction
\* job that read PARSED.
ExtractionOnlyWhenParsed ==
    [][/\ \A k \in Queued :
             (jobs'[k].kind = "extract" /\ jobs'[k].origin = <<0, 0>>)
             => documents[jobs'[k].document_id].upload_status = "PARSED"
       /\ \A j \in JobIds :
             (/\ jobs[j].kind = "extract" /\ jobs[j].pc = "queued"
              /\ jobs'[j].pc # "queued" /\ jobs'[j].result # "exhausted"
              /\ documents[jobs[j].document_id].upload_status # "PARSED")
             => /\ jobs'[j].pc = "done"
                /\ jobs'[j].result \in {"error:not_found", "error:not_parsed"}
                /\ records' = records
       /\ records' # records
             => \E j \in JobIds :
                   /\ jobs[j].kind = "extract" /\ jobs'[j] # jobs[j]
                   /\ jobs[j].pc \in {"begin", "run", "stats"}
                   /\ jobs[j].seen = "PARSED"]_vars

\* An extraction job has found its document FAILED or PARSING and returned
\* the error, no record stored.
ExtractionOnlyWhenParsedWitness ==
    /\ records = <<>>
    /\ \E j \in JobIds :
          /\ jobs[j].kind = "extract" /\ jobs[j].pc = "done"
          /\ jobs[j].result = "error:not_parsed"
          /\ jobs[j].seen \in {"PARSING", "FAILED"}

\* C5: a stored document's upload_status changes only by UPLOADED -> PARSING,
\* PARSING -> PARSED and PARSING -> FAILED.
UploadStatusSteps ==
    [][\A d \in DocIds :
          (/\ documents[d].upload_status # "ABSENT"
           /\ documents'[d].upload_status # documents[d].upload_status)
          => <<documents[d].upload_status, documents'[d].upload_status>>
                \in {<<"UPLOADED", "PARSING">>, <<"PARSING", "PARSED">>,
                     <<"PARSING", "FAILED">>}]_vars

\* C6: a record's extraction_status changes only from PENDING, COMPLETED or
\* FAILED to IN_PROGRESS and from IN_PROGRESS to COMPLETED or FAILED; a
\* COMPLETED record has its fields and no error message, a FAILED record has
\* an error message.
RecordStatusSteps ==
    [][/\ \A r \in 1..Len(records) :
             records'[r].extraction_status # records[r].extraction_status
             => \/ /\ records[r].extraction_status \in {"PENDING", "COMPLETED", "FAILED"}
                   /\ records'[r].extraction_status = "IN_PROGRESS"
                \/ /\ records[r].extraction_status = "IN_PROGRESS"
                   /\ records'[r].extraction_status \in {"COMPLETED", "FAILED"}
       /\ \A r \in 1..Len(records') :
             /\ records'[r].extraction_status = "COMPLETED"
                => /\ records'[r].extracted_fields # NoneVal
                   /\ records'[r].error_message = NoneVal
             /\ records'[r].extraction_status = "FAILED"
                => records'[r].error_message # NoneVal]_vars

\* The job a failure message names, and the kind of failure.
FailedJob(message) == message[2]
IsFailure(message, kind) == message # NoneVal /\ message[1] = kind

\* C7: the step that records a parser failure sets the document FAILED with
\* the message and ends the parse job, no retry counted and nothing queued;
\* the step that records an engine failure does the same to the record and
\* the extraction job; a job so ended never runs again.
DomainFailureIsTerminal ==
    [][/\ \A d \in DocIds :
             (/\ documents'[d].error_message # documents[d].error_message
              /\ IsFailure(documents'[d].error_message, "Parsing failed"))
             => LET j == FailedJob(documents'[d].error_message)
                IN /\ documents'[d].upload_status = "FAILED"
                   /\ jobs[j].kind = "parse" /\ jobs[j].pc = "parsing"
                   /\ jobs'[j].pc = "done" /\ jobs'[j].result = "error:parser"
                   /\ jobs'[j].retries = jobs[j].retries
                   /\ Len(jobs') = Len(jobs)
       /\ \A r \in 1..Len(records) :
             (/\ records'[r].error_message # records[r].error_message
              /\ IsFailure(records'[r].error_message, "Extraction failed"))
             => LET j == FailedJob(records'[r].error_message)
                IN /\ records'[r].extraction_status = "FAILED"
                   /\ jobs[j].kind = "extract" /\ jobs[j].pc = "run" /\ jobs[j].rec = r
                   /\ jobs'[j].pc = "done" /\ jobs'[j].result = "error:extraction"
                   /\ jobs'[j].retries = jobs[j].retries
                   /\ Len(jobs') = Len(jobs)
       /\ \A j \in JobIds :
             jobs[j].result \in {"error:parser", "error:extraction"}
             => jobs'[j] = jobs[j]
       /\ \A j \in JobIds :
             /\ (jobs[j].kind = "parse" /\ jobs[j].pc = "parsing" /\ jobs'[j].pc = "done"
                 /\ jobs'[j].result # "exhausted")
                => IsFailure(documents'[jobs[j].document_id].error_message, "Parsing failed")
             /\ (jobs[j].kind = "extract" /\ jobs[j].pc = "run" /\ jobs'[j].pc = "done"
                 /\ jobs'[j].result # "exhausted")
                => IsFailure(records'[jobs[j].rec].error_message, "Extraction failed")]_vars

\* A parse job ended by a parser failure and an extraction job ended by an
\* engine failure, the document and the record FAILED with their messages.
DomainFailureIsTerminalWitness ==
    /\ \E j \in JobIds :
          /\ jobs[j].kind = "parse" /\ jobs[j].result = "error:parser"
          /\ documents[jobs[j].document_id].upload_status = "FAILED"
          /\ documents[jobs[j].document_id].error_message = jobs[j].error
    /\ \E j \in JobIds :
          /\ jobs[j].kind = "extract" /\ jobs[j].result = "error:extraction"
          /\ records[jobs[j].rec].extraction_status = "FAILED"
          /\ records[jobs[j].rec].error_message = jobs[j].error

\* C8: a job is executed at most four times, and the step that exhausts its
\* retries leaves the document, or a record of the job's pair, FAILED with
\* the last error message.
ExhaustedMeansFailed ==
    [][\A j \in JobIds :
          /\ jobs'[j].retries <= MaxRetries
          /\ (jobs'[j].result = "exhausted" /\ jobs[j].result # "exhausted")
             => IF jobs[j].kind = "parse"
                THEN /\ documents'[jobs[j].document_id].upload_status = "FAILED"
                     /\ documents'[jobs[j].document_id].error_message = jobs'[j].error
                ELSE \E r \in 1..Len(records') :
                        /\ records'[r].document_id = jobs[j].document_id
                        /\ records'[r].field_template_id = jobs[j].field_template_id
                        /\ records'[r].extraction_status = "FAILED"
                        /\ records'[r].error_message = jobs'[j].error]_vars

RECURSIVE ChunkCandidates(_, _)
ChunkCandidates(chunk_results, id) ==
    IF chunk_results = <<>> THEN <<>>
    ELSE LET i == FirstWithId(Head(chunk_results), id)
             rest == ChunkCandidates(Tail(chunk_results), id)
         IN IF i # 0 THEN <<Head(chunk_results)[i]>> \o rest ELSE rest

\* The candidates whose raw_value is not null, the empty string included.
RECURSIVE NonNull(_)
NonNull(cands) ==
    IF cands = <<>> THEN <<>>
    ELSE IF Head(cands).raw_value # NoneVal THEN <<Head(cands)>> \o NonNull(Tail(cands))
    ELSE NonNull(Tail(cands))

\* The earliest of the candidates of highest confidence_score.
EarliestBest(cands) ==
    cands[CHOOSE i \in 1..Len(cands) :
            /\ \A j \in 1..Len(cands) : cands[j].confidence_score <= cands[i].confidence_score
            /\ \A j \in 1..(i - 1) : cands[j].confidence_score < cands[i].confidence_score]

\* C11: after the chunked path, the result of every field is the earliest
\* candidate of highest confidence_score among the chunks' candidates whose
\* raw_value is not null, an empty string counting as not null, and the
\* placeholder when every candidate's raw_value is null.
MergeTakesBestNonNull ==
    (ePc = "done" /\ NeedsChunking(eText, DefaultChunkSize)) =>
        /\ Len(eResult) = Len(eDefs)
        /\ \A k \in 1..Len(eDefs) :
              LET cands == NonNull(ChunkCandidates(eCalls, eDefs[k].field_id))
              IN eResult[k] = IF cands = <<>> THEN Placeholder(eDefs[k].field_id)
                              ELSE EarliestBest(cands)

\* extract() made one call, on the whole text, and returned that call's results.
SingleCallPath ==
    /\ Len(eCalls) = 1
    /\ ePrompts = <<PromptText(eText)>>
    /\ eResult = eCalls[1]

\* extract() made one call per chunk, in order, and returned the merged results.
ChunkedPath ==
    LET chunks == CreateChunks(eText, DefaultChunkSize, ChunkOverlap)
    IN /\ Len(eCalls) = Len(chunks)
       /\ ePrompts = [i \in 1..Len(chunks) |-> PromptText(chunks[i])]
       /\ eResult = MergeChunkResults(eCalls, eDefs)

\* C12 as stated: one call for a text shorter than chunk_size, the chunked
\* path for a text of chunk_size characters or more.
ChunkedAtOrAboveThreshold ==
    ePc = "done" =>
        /\ Len(eText) < DefaultChunkSize => SingleCallPath
        /\ Len(eText) >= DefaultChunkSize => ChunkedPath

\* C12, amended: one call for a text of at most chunk_size characters, the
\* chunked path (one call per chunk, then the merge) for a longer text.
ChunkedAboveThreshold ==
    ePc = "done" =>
        /\ Len(eText) <= DefaultChunkSize => SingleCallPath
        /\ Len(eText) > DefaultChunkSize => ChunkedPath

\* A text of exactly chunk_size characters went through one call whose
\* results, returned as they are, are not what the merge would have made of them.
ChunkedAboveThresholdWitness ==
    /\ ePc = "done"
    /\ Len(eText) = DefaultChunkSize
    /\ SingleCallPath
    /\ eResult # MergeChunkResults(eCalls, eDefs)

\* C13: every result the engine returns, from a single call or from the merge
\* of the chunks' results, and every result of each call behind it, has a
\* confidence between 0.0 and 1.0 (0 and 10 tenths), whatever number the model
\* reported or left out.
ConfidenceInUnitRange ==
    /\ \A c \in 1..Len(eCalls) : \A i \in 1..Len(eCalls[c]) :
          eCalls[c][i].confidence_score \in 0..10
    /\ ePc = "done" =>
          \A i \in 1..Len(eResult) : eResult[i].confidence_score \in 0..10

\* A returned list holding a result reported at 1.5 and kept at 1.0, one
\* reported at -0.5 and kept at 0.0, and one with no confidence kept at 0.5.
ConfidenceInUnitRangeWitness ==
    /\ ePc = "done"
    /\ \E i, j, k \in 1..Len(eResult) :
          /\ eResult[i].raw_value = <<>> /\ eResult[i].confidence_score = 10
          /\ eResult[j].raw_value = <<"n">> /\ eResult[j].confidence_score = 0
          /\ eResult[k].raw_value = <<"y">> /\ eResult[k].confidence_score = 5

\* The field_ids of a sequence of definitions or of results.
FieldIds(seq) == {seq[i].field_id : i \in 1..Len(seq)}

\* C14: when _parse_response returns, no result carries a field_id that is
\* not among the definitions (items of unknown ids or without a field_id are
\* discarded), and every definition that no kept item names is represented by
\* exactly one result, with a null raw and normalized value, confidence 0.0
\* and no citations.
ParseKeepsKnownFillsMissing ==
    [][(ePc = "parse" /\ Len(eCalls') = Len(eCalls) + 1) =>
          LET result == eCalls'[Len(eCalls')]
          IN /\ FieldIds(result) \subseteq FieldIds(eDefs)
             /\ \A k \in 1..Len(eDefs) :
                   eDefs[k].field_id \notin FieldIds(eCur) =>
                      /\ Cardinality({i \in 1..Len(result) :
                                         result[i].field_id = eDefs[k].field_id}) = 1
                      /\ \E i \in 1..Len(result) :
                            result[i] = Placeholder(eDefs[k].field_id)]_vars

\* A call whose array held items, all discarded or all of one field, returned
\* for two definitions a list in which a placeholder stands for an unnamed one.
ParseKeepsKnownFillsMissingWitness ==
    /\ ePc = "done"
    /\ eDefs = <<F1, F2>>
    /\ eUsed = MaxItems
    /\ Len(eCalls) = 1
    /\ Placeholder("f2") \in {eCalls[1][i] : i \in 1..Len(eCalls[1])}
    /\ \E i \in 1..Len(eCalls[1]) :
          eCalls[1][i].field_id = "f1" /\ eCalls[1][i].raw_value # NoneVal

(* Properties of the field normaliser *)
\* The raw string holds nothing but whitespace.
EmptyAfterTrim(raw) == \A i \in 1..Len(raw) : raw[i] \in Whitespace

\* The raw string from its first to its last character that is not whitespace.
Trimmed(raw) ==
    LET solid == {i \in 1..Len(raw) : raw[i] \notin Whitespace}
        first == CHOOSE i \in solid : \A j \in solid : i <= j
        last == CHOOSE i \in solid : \A j \in solid : j <= i
    IN IF solid = {} THEN <<>> ELSE SubSeq(raw, first, last)

\* The word in any letter case, whitespace around it allowed.
IsWord(raw, words) ==
    \E w \in words :
        /\ Len(Trimmed(raw)) = Len(w)
        /\ \A i \in 1..Len(w) : LowerChar(Trimmed(raw)[i]) = w[i]

\* C15 as stated: _normalize_value returns (it never raises); null for a null
\* raw value and for a raw string empty after trimming, whatever the field
\* type; for BOOLEAN "true" for yes/true/1/y and "false" for no/false/0/n in
\* any letter case, and any other non-empty value unchanged.
NormalizeBooleanOtherUnchanged ==
    nPc # "call" =>
        /\ nPc = "returned"
        /\ (nRaw = NoneVal \/ EmptyAfterTrim(nRaw)) => nOut = NoneVal
        /\ (nType = "BOOLEAN" /\ nRaw # NoneVal /\ ~EmptyAfterTrim(nRaw)) =>
              nOut = IF IsWord(nRaw, BooleanTrue) THEN <<"t", "r", "u", "e">>
                     ELSE IF IsWord(nRaw, BooleanFalse) THEN <<"f", "a", "l", "s", "e">>
                     ELSE nRaw

\* C15, amended: _normalize_value returns (it never raises); null for a null
\* raw value, for the raw string "null" and for a raw string empty after
\* trimming, whatever the field type; for BOOLEAN "true" for yes/true/1/y and
\* "false" for no/false/0/n in any letter case and with whitespace around, and
\* any other value with the whitespace around it trimmed.
NormalizeBooleanOtherTrimmed ==
    nPc # "call" =>
        /\ nPc = "returned"
        /\ (nRaw = NoneVal \/ EmptyAfterTrim(nRaw) \/ nRaw = <<"n", "u", "l", "l">>) =>
              nOut = NoneVal
        /\ (/\ nType = "BOOLEAN" /\ nRaw # NoneVal /\ ~EmptyAfterTrim(nRaw)
            /\ nRaw # <<"n", "u", "l", "l">>) =>
              nOut = IF IsWord(nRaw, BooleanTrue) THEN <<"t", "r", "u", "e">>
                     ELSE IF IsWord(nRaw, BooleanFalse) THEN <<"f", "a", "l", "s", "e">>
                     ELSE Trimmed(nRaw)

\* A BOOLEAN value in upper case with whitespace around it came back as "true".
NormalizeBooleanOtherTrimmedWitness ==
    /\ nPc = "returned"
    /\ nType = "BOOLEAN"
    /\ nRaw = <<" ", "Y", "e", "S", " ">>
    /\ nOut = <<"t", "r", "u", "e">>

(* Properties of the review table *)
\* The one project of the store with a template, whose table is answered
\* with 200; its template's fields; the newest record of a document for it.
TableFields == templates[projects["p1"].field_template_id].fields

NewestRecord(d) ==
    LET all == {r \in 1..Len(records) :
                  /\ records[r].document_id = d
                  /\ records[r].field_template_id = projects["p1"].field_template_id}
    IN IF all = {} THEN 0 ELSE CHOOSE r \in all : \A q \in all : q <= r

HasCompleted(d) ==
    NewestRecord(d) # 0 /\ records[NewestRecord(d)].extraction_status = "COMPLETED"

\* C16: in the review table, for a document whose selected record is
\* COMPLETED and every template field with an extracted result, final_value
\* is the review's manual_value when a review with a non-null, non-empty
\* manual_value exists and the extraction's normalized_value otherwise;
\* review_status is the review's status when a review exists, else PENDING.
TableFinalValue ==
    table.code = 200 =>
        \A i \in 1..Len(table.rows), k \in 1..Len(TableFields) :
            LET d == table.rows[i].document_id
                id == TableFields[k].field_id
                fields == records[NewestRecord(d)].extracted_fields
                cell == table.rows[i].fields[id]
                revs == {r \in 1..Len(reviews) :
                           /\ reviews[r].extracted_record_id = NewestRecord(d)
                           /\ reviews[r].field_id = id}
            IN (HasCompleted(d) /\ FirstWithId(fields, id) # 0) =>
                  LET normalized == fields[FirstWithId(fields, id)].normalized_value
                  IN /\ revs = {} =>
                          cell.final_value = normalized /\ cell.review_status = "PENDING"
                     /\ \A r \in revs :
                          /\ cell.review_status = reviews[r].review_status
                          /\ cell.final_value =
                                IF reviews[r].manual_value \notin {NoneVal, <<>>}
                                THEN reviews[r].manual_value
                                ELSE normalized

\* A table with a cell whose final value is the reviewer's, a cell reviewed
\* with an empty manual value that shows the normalized value, and a cell
\* without a review.
TableFinalValueWitness ==
    /\ table.code = 200
    /\ \E i, j \in 1..Len(table.rows) :
          /\ HasCompleted(table.rows[i].document_id)
          /\ HasCompleted(table.rows[j].document_id)
          /\ table.rows[i].fields["f1"].manual_value = <<"x">>
          /\ table.rows[i].fields["f1"].final_value = <<"x">>
          /\ table.rows[j].fields["f1"].manual_value = <<>>
          /\ table.rows[j].fields["f1"].review_status = "MANUAL_UPDATED"
          /\ table.rows[j].fields["f1"].final_value = <<"t", "r", "u", "e">>
          /\ table.rows[j].fields["f2"].review_status = "PENDING"

\* C17: the review table has exactly one row per document of the project and
\* in each row exactly one cell per field of the project's template; when the
\* document has no record for the project's template, or the newest one is
\* not COMPLETED, every cell of the row is NOT_EXTRACTED with null extracted,
\* normalized, manual and final values, whatever reviews exist.
TableRowsAndNotExtracted ==
    table.code = 200 =>
        LET docs == {d \in DOMAIN documents : documents[d].project_id = "p1"}
        IN /\ Len(table.rows) = Cardinality(docs)
           /\ \A d \in docs :
                 Cardinality({i \in 1..Len(table.rows) : table.rows[i].document_id = d}) = 1
           /\ \A i \in 1..Len(table.rows) :
                 /\ DOMAIN table.rows[i].fields = FieldIds(TableFields)
                 /\ Cardinality(DOMAIN table.rows[i].fields) = Len(TableFields)
                 /\ ~HasCompleted(table.rows[i].document_id) =>
                       \A id \in DOMAIN table.rows[i].fields :
                          LET cell == table.rows[i].fields[id]
                          IN /\ cell.review_status = "NOT_EXTRACTED"
                             /\ cell.extracted_value = NoneVal
                             /\ cell.normalized_value = NoneVal
                             /\ cell.manual_value = NoneVal
                             /\ cell.final_value = NoneVal

\* A table read when the newest record of "d1" is FAILED, an older one is
\* COMPLETED, both carry a review with a manual value, and "d2" has no record.
TableRowsAndNotExtractedWitness ==
    /\ table.code = 200
    /\ Len(records) = 2
    /\ records[1].document_id = "d1" /\ records[1].field_template_id = "t1"
    /\ records[1].extraction_status = "COMPLETED"
    /\ records[2].document_id = "d1" /\ records[2].field_template_id = "t1"
    /\ records[2].extraction_status = "FAILED"
    /\ \A r \in 1..2 : \E k \in 1..Len(reviews) :
          reviews[k].extracted_record_id = r /\ reviews[k].manual_value = <<"x">>
    /\ \A i \in 1..Len(table.rows) :
          table.rows[i].fields["f1"].review_status = "NOT_EXTRACTED"

(* Properties of the field templates and of re-extraction *)
\* The field_ids of the list are pairwise distinct.
DistinctIds(fields) ==
    \A i, j \in 1..Len(fields) : fields[i].field_id = fields[j].field_id => i = j

\* C18: over any sequence of update_field_template calls a template's version
\* never decreases; a call the endpoint accepts increases it by exactly 1 when
\* the submitted field list differs from the stored one and leaves it as it is
\* when only the name is submitted or the submitted list equals the stored
\* one (a call it refuses changes nothing). A call answered 200 or 400 is on
\* the one stored template, a call answered 404 on none.
VersionBumpsOnFieldChange ==
    [][/\ \A t \in DOMAIN templates \cap DOMAIN templates' :
             templates'[t].version >= templates[t].version
       /\ tReply'.op = "update" =>
             \A t \in DOMAIN templates :
                /\ t \in DOMAIN templates'
                /\ templates'[t].version =
                      IF /\ tReply'.code # 404
                         /\ tReply'.fields # NoneVal
                         /\ DistinctIds(tReply'.fields)
                         /\ tReply'.fields # templates[t].fields
                      THEN templates[t].version + 1
                      ELSE templates[t].version]_vars

\* Two field changes took the template to its third version, the second one
\* back to the first field list, with the name changed on the way.
VersionBumpsOnFieldChangeWitness ==
    /\ tReply.op = "update" /\ tReply.code = 200
    /\ "t1" \in DOMAIN templates
    /\ templates["t1"].version = 3
    /\ templates["t1"].fields = <<F1, F2>>
    /\ tReply.fields = <<F1, F2>>
    /\ templates["t1"].name = <<"n">>

Referenced(t) == \E p \in DOMAIN projects : projects[p].field_template_id = t

\* C19: no step removes a template that a project, ACTIVE or ARCHIVED,
\* refers to: delete_field_template answers 400 and the template stays;
\* a template leaves the store only by a delete while no project refers to it.
DeleteOnlyUnreferenced ==
    [][/\ \A t \in DOMAIN templates :
             /\ Referenced(t) => t \in DOMAIN templates'
             /\ t \notin DOMAIN templates' => tReply'.op = "delete" /\ tReply'.code = 204
       /\ (tReply'.op = "delete" /\ tReply'.code # 204) => templates' = templates
       /\ (tReply'.op = "delete" /\ tReply'.code = 400) =>
             \E t \in DOMAIN templates : Referenced(t)]_vars

\* A delete was refused for a template that only ARCHIVED projects refer to.
DeleteOnlyUnreferencedWitness ==
    /\ tReply.op = "delete" /\ tReply.code = 400
    /\ "t1" \in DOMAIN templates
    /\ Referenced("t1")
    /\ \A p \in DOMAIN projects :
          projects[p].field_template_id = "t1" => projects[p].status = "ARCHIVED"

ChunkedPathArguments ==
    /\ cOverlap = ChunkOverlap
    /\ cSize >= 1
    /\ Len(cText) > cSize

\* C26: for every non-empty text and every chunk_size >= 1 that extract()
\* passes to _create_chunks with the fixed overlap, each pass of the loop that
\* goes on to another chunk moves the start offset strictly forward, so the
\* loop ends with a finite, non-empty list of chunks in increasing order.
ChunkerStartsIncrease ==
    [][(ChunkedPathArguments /\ cPc = "loop" /\ cPc' = "loop") => cStart' > cStart]_vars


(***************************************************************************)
(* C27: the document text the prompts embed                                *)
(***************************************************************************)

\* C27: when extract() has returned for a text and the default chunk_size,
\* every character position of the text is in the document text embedded in
\* the prompt of at least one LLM call.
EveryCharacterPrompted ==
    ePc = "done" => \A i \in 1..Len(eText) : \E k \in 1..Len(ePrompts) :
                        \E j \in 1..Len(ePrompts[k]) : ePrompts[k][j] = i


(***************************************************************************)
(* C28: a parse execution after its PARSED commit                          *)
(***************************************************************************)

\* C28: an execution of the parse job that has committed the document as
\* PARSED with its text ends in success: it neither sets the document to
\* FAILED nor schedules a retry of the parse, even when queuing the
\* auto-triggered extraction job raises.
ParsedCommitIsFinal ==
    [][\A j \in JobIds :
          (jobs[j].kind = "parse" /\ jobs[j].pc = "trigger" /\ jobs'[j] # jobs[j]) =>
              /\ jobs'[j].result = "success"
              /\ documents'[jobs[j].document_id].error_message
                    # <<"Unexpected error", j, jobs[j].retries>>]_vars


(***************************************************************************)
(* C24: a job message delivered a second time                              *)
(***************************************************************************)

\* Job k is the second delivery of a job whose first execution has completed
\* successfully, and this step ends k's execution successfully too.
ReExecutionEnds(k) ==
    /\ jobs[k].origin[1] = -1
    /\ jobs[jobs[k].origin[2]].pc = "done"
    /\ jobs[jobs[k].origin[2]].result = "success"
    /\ jobs[k].pc # "done"
    /\ jobs'[k].pc = "done"
    /\ jobs'[k].result = "success"

\* C24: executing a parse job or an extraction job a second time after the
\* same job completed successfully is a no-op or an idempotent update: the
\* second execution queues no additional extraction job, and after a parse
\* job's second execution the document is PARSED with the same text.
ReExecutionIsIdempotent ==
    [][\A k \in JobIds : ReExecutionEnds(k) =>
          /\ Len(jobs') = Len(jobs)
          /\ jobs[k].kind = "parse" =>
                /\ documents'[jobs[k].document_id].upload_status = "PARSED"
                /\ documents'[jobs[k].document_id].parsed_text
                      = FileText[jobs[k].document_id]]_vars


(***************************************************************************)
(* C29: every started parse and extraction settles                         *)
(***************************************************************************)

\* C29: when every queued job and every scheduled retry is eventually
\* executed, a document set to PARSING eventually is PARSED or FAILED, and a
\* record set to IN_PROGRESS eventually is COMPLETED or FAILED, also when an
\* execution is killed at the hard time limit or the commit of its failure
\* status fails.
StartedWorkSettles ==
    /\ \A d \in DocIds :
          (documents[d].upload_status = "PARSING")
              ~> (documents[d].upload_status \in {"PARSED", "FAILED"})
    /\ \A r \in 1..MaxJobs :
          (r <= Len(records) /\ records[r].extraction_status = "IN_PROGRESS")
              ~> (r <= Len(records)
                    /\ records[r].extraction_status \in {"COMPLETED", "FAILED"})


(***************************************************************************)
(* C23: what a stored review refers to                                     *)
(***************************************************************************)

\* The field ids known to a stored extracted record: those of its field
\* results and those of the template it was extracted with.
KnownFieldIds(r) ==
    {templates[records[r].field_template_id].fields[k].field_id :
        k \in 1..Len(templates[records[r].field_template_id].fields)}
    \cup (IF Truthy(records[r].extracted_fields)
          THEN {records[r].extracted_fields[k].field_id :
                  k \in 1..Len(records[r].extracted_fields)}
          ELSE {})

\* C23: every stored review record, created by create_review_record or by
\* bulk_create_reviews and whatever the status of the extracted record when
\* it was submitted, references an existing extracted record and a field_id
\* known to that record; a submission that does not is rejected and stores nothing.
ReviewsReferenceKnownFields ==
    \A i \in 1..Len(reviews) :
        /\ reviews[i].extracted_record_id \in 1..Len(records)
        /\ reviews[i].field_id \in KnownFieldIds(reviews[i].extracted_record_id)


(***************************************************************************)
(* C22: the items of one bulk request                                      *)
(***************************************************************************)

\* C22: bulk_create_reviews processes each item on its own: an item that
\* fails, such as one whose extracted_record_id names no stored record, is
\* reported in the errors list of the answer, every other item of the batch
\* is stored, and created + updated + the number of errors is the number of
\* items submitted.
BulkItemsIndependent ==
    tReply.op = "bulk" =>
        /\ tReply.code = 201
        /\ tReply.stored + Len(tReply.errors) = Len(tReply.items)
        /\ \A i \in 1..Len(tReply.items) :
              LET d == tReply.items[i]
              IN IF d.extracted_record_id \notin 1..Len(records)
                 THEN \E e \in 1..Len(tReply.errors) : tReply.errors[e] = d
                 ELSE ReviewsOf(reviews, d.extracted_record_id, d.field_id) # {}


(***************************************************************************)
(* C25: field ids of the stored templates                                  *)
(***************************************************************************)

\* C25: after any sequence of create_field_template and update_field_template
\* requests every stored template has pairwise distinct field_ids, and a
\* create or update request whose field list repeats a field_id is rejected
\* and leaves the stored templates, name, fields and version, as they were.
TemplatesKeepDistinctIds ==
    /\ [](\A t \in DOMAIN templates : DistinctIds(templates[t].fields))
    /\ [][(/\ tReply' # tReply
           /\ tReply'.op \in {"create", "update"}
           /\ tReply'.fields # NoneVal
           /\ ~DistinctIds(tReply'.fields))
          => (tReply'.code \in {400, 404} /\ templates' = templates)]_vars

\* A created template and an updated one are stored, and the request served
\* last, an update with a name and a field list that repeats a field_id, was
\* answered 400.
TemplatesKeepDistinctIdsWitness ==
    /\ "t2" \in DOMAIN templates
    /\ templates["t1"].version > 1
    /\ tReply.op = "update" /\ tReply.code = 400
    /\ tReply.fields = <<F1, F1>>

(***************************************************************************)
(* C21: the field results of a record and the fields of its template        *)
(***************************************************************************)

\* C21: after any sequence of extractions and template updates, every field
\* result of a COMPLETED extracted record has a field_id that is the id of a
\* field definition of the template the record refers to.
ResultsReferenceTemplateFields ==
    \A r \in 1..Len(records) :
        records[r].extraction_status = "COMPLETED" =>
            \A k \in 1..Len(records[r].extracted_fields) :
                \E f \in 1..Len(templates[records[r].field_template_id].fields) :
                    templates[records[r].field_template_id].fields[f].field_id
                        = records[r].extracted_fields[k].field_id


(***************************************************************************)
(* C30: what a re-run of the extraction leaves alone                       *)
(***************************************************************************)

\* The reviews of record r for field id that carry a non-empty manual_value.
ManualReviews(r, id) ==
    {v \in 1..Len(reviews) : /\ reviews[v].extracted_record_id = r
                             /\ reviews[v].field_id = id
                             /\ reviews[v].manual_value \notin {NoneVal, <<>>}}

====
